---- MODULE Spec2Model ----
(***************************************************************************)
(* A model of the entity-resolution pipeline of build_balanced_result.py:  *)
(* cleaning and classification of raw labels, normalisation, blocking,     *)
(* composite scoring, the merge decision with its guards, union-find       *)
(* clustering, the splitter of oversized groups, primary selection and the *)
(* output rows.                                                            *)
(*                                                                         *)
(* Texts are TLA+ strings read character by character.  Scores are kept in *)
(* units of 1/10000 (floor of the exact rational), so that a comparison    *)
(* with a threshold k/100 is exact; ratios are exact fractions <<n, d>>.   *)
(***************************************************************************)
EXTENDS Integers, Sequences, FiniteSets, TLC

VARIABLES
    all_rows,         \* the rows read from masters: <<id, label, type>>
    hash_seed,        \* the interpreter's string-hash seed of this run: it fixes the
                      \* order in which a set of strings is iterated
    pc,               \* the step of main() that runs next
    all_records,      \* rows after cleaning and classification
    id_to_norm,       \* valid id -> normalised text
    candidate_pairs,  \* pairs produced by blocking
    pending,          \* candidate pairs the scoring loop has not reached yet
    uf,               \* the union-find: [parent, rank]
    merged,           \* the pairs the scoring loop or the splitter unioned
    raw_groups,       \* the groups before the splitter ran
    id_to_group,      \* id -> id of its group's primary
    id_is_primary,    \* id -> 0 | 1
    output,           \* the rows inserted into balanced_result
    run,              \* number of the current run of main()
    prev_partition,   \* the partition the previous run ended with
    prev_primaries,   \* the primaries the previous run elected
    m_a, m_b, m_score, m_result,  \* a merge decision on its own: inputs and outcome
    t_x, t_y,         \* texts handed to the text functions on their own
    t_norm,           \* normalize applied to t_x once, twice, ...
    t_reason,         \* classify_garbage(t_x), "unset" before the call
    t_score,          \* composite_score of the two normalised texts, both ways round
    t_clean,          \* clean_name(t_x), "unset" before the call
    use_openrouter,   \* dedup.py: USE_OPENROUTER, the remote oracle instead of the local one
    unique_label,     \* the unique index on masters.label: "none", "cs" or "ci"
    masters,          \* id -> the Company row: label, duplicate_status, duplicate_of, record_type
    pair_scores,      \* (id_a, id_b) -> score of the auto-duplicate and the consulted pairs
    probable_pairs,   \* <<id_a, id_b, score>>, sorted by falling score
    next_pair,        \* the place in probable_pairs the loop is at
    ai_calls_made,    \* consultations counted so far
    attempt,          \* openrouter_ai_validate: attempts that have failed in the current call
    pair_ai,          \* (id_a, id_b) -> the verdict kept for the pair
    ai_confirmed,     \* the pairs unioned on the oracle's verdict
    new_inserts,      \* the groups that still need a new primary record
    final_result,     \* the rows of final_result
    uf_plain,         \* src/models.py: its UnionFind, the parent map and the order of its keys
    uf_calls          \* the calls made so far on the two union-finds side by side

text_vars == <<t_x, t_y, t_norm, t_reason, t_score, t_clean>>

dedup_vars == <<use_openrouter, unique_label, masters, pair_scores, probable_pairs, next_pair,
                ai_calls_made, attempt, pair_ai, ai_confirmed, new_inserts, final_result>>

vars == <<all_rows, hash_seed, pc, all_records, id_to_norm, candidate_pairs, pending,
          uf, merged, raw_groups, id_to_group, id_is_primary, output, run,
          prev_partition, prev_primaries, m_a, m_b, m_score, m_result, text_vars, dedup_vars, uf_plain, uf_calls>>

\* ------------------------------------------------------------------------
\* Characters and strings
\* ------------------------------------------------------------------------

Ch(s, i) == SubSeq(s, i, i)

Max(x, y) == IF x >= y THEN x ELSE y
Min(x, y) == IF x <= y THEN x ELSE y

Lowers == "abcdefghijklmnopqrstuvwxyz"
Uppers == "ABCDEFGHIJKLMNOPQRSTUVWXYZ"
Digits == "0123456789"

\* Code-point order of the characters the model uses (Python compares
\* strings by code point): space, punctuation, digits, upper case, lower case.
CharOrder == " &'(),-./" \o Digits \o Uppers \o Lowers

CharSet(s) == {Ch(s, i) : i \in 1..Len(s)}

Ord == [c \in CharSet(CharOrder) |-> CHOOSE i \in 1..Len(CharOrder) : Ch(CharOrder, i) = c]

IsLower(c) == c \in CharSet(Lowers)
IsUpper(c) == c \in CharSet(Uppers)
IsDigit(c) == c \in CharSet(Digits)
IsSpace(c) == c = " "
\* \w of the regular expressions, on the model's alphabet
IsWord(c) == IsLower(c) \/ IsUpper(c) \/ IsDigit(c)

LowerOf == [c \in CharSet(CharOrder) |->
              IF IsUpper(c) THEN Ch(Lowers, Ord[c] - Ord["A"] + 1) ELSE c]
UpperOf == [c \in CharSet(CharOrder) |->
              IF IsLower(c) THEN Ch(Uppers, Ord[c] - Ord["a"] + 1) ELSE c]

RECURSIVE MapChars(_, _, _)
MapChars(f, s, i) == IF i > Len(s) THEN "" ELSE f[Ch(s, i)] \o MapChars(f, s, i + 1)

\* str.lower(), str.upper()
lower(s) == MapChars(LowerOf, s, 1)
upper(s) == MapChars(UpperOf, s, 1)

\* s[:n] of Python
Prefix(s, n) == SubSeq(s, 1, Min(n, Len(s)))

\* lexicographic s < t by code point
RECURSIVE StrLess(_, _, _)
StrLess(s, t, i) ==
    IF i > Len(t) THEN FALSE
    ELSE IF i > Len(s) THEN TRUE
    ELSE IF Ch(s, i) = Ch(t, i) THEN StrLess(s, t, i + 1)
    ELSE Ord[Ch(s, i)] < Ord[Ch(t, i)]

\* str.strip(): leading and trailing whitespace removed
RECURSIVE LStrip(_)
LStrip(s) == IF Len(s) > 0 /\ IsSpace(Ch(s, 1)) THEN LStrip(SubSeq(s, 2, Len(s))) ELSE s
RECURSIVE RStrip(_)
RStrip(s) == IF Len(s) > 0 /\ IsSpace(Ch(s, Len(s))) THEN RStrip(SubSeq(s, 1, Len(s) - 1)) ELSE s
strip(s) == LStrip(RStrip(s))

\* re.sub(r"\s+", " ", s): every run of whitespace becomes one space
RECURSIVE CollapseSpaces(_, _)
CollapseSpaces(s, i) ==
    IF i > Len(s) THEN ""
    ELSE IF IsSpace(Ch(s, i)) /\ i > 1 /\ IsSpace(Ch(s, i - 1)) THEN CollapseSpaces(s, i + 1)
    ELSE Ch(s, i) \o CollapseSpaces(s, i + 1)

\* str.split(): the maximal runs of non-whitespace, in order
RECURSIVE SplitFrom(_, _, _)
SplitFrom(s, i, cur) ==
    IF i > Len(s) THEN (IF cur = "" THEN <<>> ELSE <<cur>>)
    ELSE IF IsSpace(Ch(s, i))
         THEN (IF cur = "" THEN <<>> ELSE <<cur>>) \o SplitFrom(s, i + 1, "")
         ELSE SplitFrom(s, i + 1, cur \o Ch(s, i))
split(s) == SplitFrom(s, 1, "")

\* " ".join(seq)
RECURSIVE join(_)
join(seq) ==
    IF Len(seq) = 0 THEN ""
    ELSE IF Len(seq) = 1 THEN seq[1]
    ELSE seq[1] \o " " \o join(Tail(seq))

Range(seq) == {seq[i] : i \in 1..Len(seq)}

\* sorted(set of strings): ascending by code point
RECURSIVE SortedSeq(_)
SortedSeq(S) ==
    IF S = {} THEN <<>>
    ELSE LET m == CHOOSE x \in S : \A y \in S \ {x} : StrLess(x, y, 1)
         IN <<m>> \o SortedSeq(S \ {m})

\* sorted(list of strings), duplicates kept
RECURSIVE InsertSorted(_, _)
InsertSorted(x, seq) ==
    IF Len(seq) = 0 THEN <<x>>
    ELSE IF StrLess(x, seq[1], 1) THEN <<x>> \o seq
    ELSE <<seq[1]>> \o InsertSorted(x, Tail(seq))
RECURSIVE sorted(_)
sorted(seq) == IF Len(seq) = 0 THEN <<>> ELSE InsertSorted(seq[1], sorted(Tail(seq)))

\* ------------------------------------------------------------------------
\* rapidfuzz.fuzz: ratio, token_sort_ratio, token_set_ratio, partial_ratio
\* A ratio is the exact fraction <<n, d>> of 1, i.e. the library's 100*n/d.
\* ------------------------------------------------------------------------

\* One row of the dynamic programme; a row holds columns 0..Len(b) at indices
\* 1..Len(b)+1.  (The tests on Len force each row before it is passed on.)
RECURSIVE lcs_row(_, _, _, _, _)
lcs_row(ca, b, prev, j, cur) ==
    IF j > Len(b) THEN cur
    ELSE LET nxt == Append(cur, IF ca = Ch(b, j) THEN prev[j] + 1
                                ELSE Max(prev[j + 1], cur[j]))
         IN IF Len(nxt) > j THEN lcs_row(ca, b, prev, j + 1, nxt) ELSE nxt

RECURSIVE lcs_rows(_, _, _, _)
lcs_rows(a, b, i, prev) ==
    IF i > Len(a) THEN prev[Len(b) + 1]
    ELSE LET row == lcs_row(Ch(a, i), b, prev, 1, <<0>>)
         IN IF Len(row) > 0 THEN lcs_rows(a, b, i + 1, row) ELSE 0

\* length of the longest common subsequence
lcs(a, b) == lcs_rows(a, b, 1, [j \in 1..(Len(b) + 1) |-> 0])

\* InDel distance
indel_distance(a, b) == Len(a) + Len(b) - 2 * lcs(a, b)

\* fraction comparison and maximum
FracGeq(p, q) == p[1] * q[2] >= q[1] * p[2]
FracMax(p, q) == IF FracGeq(p, q) THEN p ELSE q

\* 1 - dist/lensum, and 1 when lensum = 0
norm_distance(dist, lensum) == IF lensum > 0 THEN <<lensum - dist, lensum>> ELSE <<1, 1>>

\* fuzz.ratio: normalised InDel similarity
ratio(a, b) == norm_distance(indel_distance(a, b), Len(a) + Len(b))

\* fuzz.ratio(ta, tb) >= 80
RatioAtLeast80(ta, tb) == FracGeq(ratio(ta, tb), <<80, 100>>)

token_sort_ratio(a, b) == ratio(join(sorted(split(a))), join(sorted(split(b))))

token_set_ratio(a, b) ==
    LET OfLengths(sect_len, sep, ab_len, ba_len, dist) ==
            IF sect_len = 0
            THEN norm_distance(dist, 2 * sect_len + 2 * sep + ab_len + ba_len)
            ELSE FracMax(norm_distance(dist, 2 * sect_len + 2 * sep + ab_len + ba_len),
                         FracMax(norm_distance(sep + ab_len, 2 * sect_len + sep + ab_len),
                                 norm_distance(sep + ba_len, 2 * sect_len + sep + ba_len)))
        OfJoined(sect_len, diff_ab_joined, diff_ba_joined) ==
            OfLengths(sect_len, IF sect_len # 0 THEN 1 ELSE 0,
                      Len(diff_ab_joined), Len(diff_ba_joined),
                      indel_distance(diff_ab_joined, diff_ba_joined))
        OfParts(intersect, diff_ab, diff_ba) ==
            IF intersect # {} /\ (diff_ab = {} \/ diff_ba = {}) THEN <<1, 1>>
            ELSE OfJoined(Len(join(SortedSeq(intersect))),
                          join(SortedSeq(diff_ab)), join(SortedSeq(diff_ba)))
        OfSets(tokens_a, tokens_b) ==
            IF tokens_a = {} \/ tokens_b = {} THEN <<0, 1>>
            ELSE OfParts(tokens_a \cap tokens_b, tokens_a \ tokens_b, tokens_b \ tokens_a)
    IN OfSets(Range(split(a)), Range(split(b)))

\* the windows of the longer string that partial_ratio aligns the shorter with
partial_windows(s1, s2) ==
    LET len1 == Len(s1)
        len2 == Len(s2)
        cs == CharSet(s1)
    IN {SubSeq(s2, 1, i) : i \in {k \in 1..(len1 - 1) : Ch(s2, k) \in cs}}
       \cup {SubSeq(s2, i + 1, i + len1) :
                i \in {k \in 0..(len2 - len1 - 1) : Ch(s2, k + len1) \in cs}}
       \cup {SubSeq(s2, i + 1, len2) :
                i \in {k \in (len2 - len1)..(len2 - 1) : Ch(s2, k + 1) \in cs}}

\* the best ratio of s1 against the windows W (each new best is forced
\* before it is passed on)
RECURSIVE FracMaxOver(_, _, _)
FracMaxOver(s1, W, best) ==
    LET Forced(rest, nb) == IF nb[2] > 0 THEN FracMaxOver(s1, rest, nb) ELSE nb
        Step(w) == Forced(W \ {w}, FracMax(best, ratio(s1, w)))
    IN IF W = {} THEN best ELSE Step(CHOOSE x \in W : TRUE)

partial_ratio_impl(s1, s2) == FracMaxOver(s1, partial_windows(s1, s2), <<0, 1>>)

\* partial_ratio that never swaps its arguments: a longer first argument is
\* compared whole
PartialRatioOneWay(a, b) ==
    IF a = "" /\ b = "" THEN <<1, 1>>
    ELSE IF Len(a) <= Len(b) THEN partial_ratio_impl(a, b)
    ELSE ratio(a, b)

\* strings of equal length are aligned both ways unless the first way is perfect
partial_ratio(a, b) ==
    LET BothWays(res) ==
            IF res[1] # res[2] /\ Len(a) = Len(b)
            THEN FracMax(res, partial_ratio_impl(b, a)) ELSE res
    IN IF a = "" /\ b = "" THEN <<1, 1>>
       ELSE IF Len(a) <= Len(b) THEN BothWays(partial_ratio_impl(a, b))
       ELSE partial_ratio_impl(b, a)


\* ------------------------------------------------------------------------
\* Normalisation
\* ------------------------------------------------------------------------

\* The words LEGAL_SUFFIX_RE removes.  normalize applies it to text that holds
\* only word characters and single spaces, where each alternative can match
\* a whole word only (the dotted forms have no dot left to match).
LEGAL_SUFFIXES_MINIMAL ==
    {"incorporated", "inc", "llc", "limited", "ltd", "corporation", "corp",
     "co", "plc", "gmbh", "ag", "sa", "nv", "pvt", "private", "lp", "llp"}

STOPWORDS ==
    {"a", "an", "and", "at", "by", "for", "in", "of", "on", "the", "to"}

\* length of the run of letters of s that starts at i
RECURSIVE LetterRun(_, _)
LetterRun(s, i) ==
    IF i <= Len(s) /\ (IsLower(Ch(s, i)) \/ IsUpper(Ch(s, i))) THEN 1 + LetterRun(s, i + 1) ELSE 0

RECURSIVE SpaceRun(_, _)
SpaceRun(s, i) == IF i <= Len(s) /\ IsSpace(Ch(s, i)) THEN 1 + SpaceRun(s, i + 1) ELSE 0

\* A match of _AMPERSAND_ACRONYM_RE at i, as <<length of group 1, start of
\* group 2, index after the match>>, or <<>>.
\* \b([A-Za-z]{1,3})\s*&\s*([A-Za-z]{1,3})\b
AcronymAt(s, i) ==
    LET Groups(n1, amp, g2, n2) ==
            IF /\ (i = 1 \/ ~IsWord(Ch(s, i - 1)))
               /\ n1 \in 1..3
               /\ amp <= Len(s) /\ Ch(s, amp) = "&"
               /\ n2 \in 1..3
               /\ (g2 + n2 > Len(s) \/ ~IsWord(Ch(s, g2 + n2)))
            THEN <<n1, g2, g2 + n2>> ELSE <<>>
        Second(n1, amp, g2) == Groups(n1, amp, g2, LetterRun(s, g2))
        Ampersand(n1, amp) == Second(n1, amp, amp + 1 + SpaceRun(s, amp + 1))
        First(n1) == Ampersand(n1, i + n1 + SpaceRun(s, i + n1))
    IN First(LetterRun(s, i))

\* _AMPERSAND_ACRONYM_RE.sub(lambda m: m.group(1) + m.group(2), s)
RECURSIVE FuseAcronyms(_, _)
FuseAcronyms(s, i) ==
    LET At(m) ==
            IF m = <<>> THEN Ch(s, i) \o FuseAcronyms(s, i + 1)
            ELSE SubSeq(s, i, i + m[1] - 1) \o SubSeq(s, m[2], m[3] - 1)
                 \o FuseAcronyms(s, m[3])
    IN IF i > Len(s) THEN "" ELSE At(AcronymAt(s, i))

\* s.replace("&", " and ") followed by re.sub(r"[^\w\s]", " ", s)
RECURSIVE ReplacePunct(_, _)
ReplacePunct(s, i) ==
    IF i > Len(s) THEN ""
    ELSE (IF Ch(s, i) = "&" THEN " and "
          ELSE IF IsWord(Ch(s, i)) \/ IsSpace(Ch(s, i)) THEN Ch(s, i)
          ELSE " ") \o ReplacePunct(s, i + 1)

\* LEGAL_SUFFIX_RE.sub("", s) on words separated by single spaces: the word
\* goes, the spaces around it stay
RECURSIVE BlankLegal(_)
BlankLegal(words) ==
    IF Len(words) = 0 THEN ""
    ELSE (IF words[1] \in LEGAL_SUFFIXES_MINIMAL THEN "" ELSE words[1])
         \o (IF Len(words) = 1 THEN "" ELSE " " \o BlankLegal(Tail(words)))

\* re.sub(r"^the\s+", "", s)
StripLeadingThe(s) ==
    IF Len(s) >= 4 /\ SubSeq(s, 1, 3) = "the" /\ IsSpace(Ch(s, 4))
    THEN SubSeq(s, 4 + SpaceRun(s, 4), Len(s)) ELSE s

\* re.sub(r"\s+the$", "", s)
StripTrailingThe(s) ==
    IF Len(s) >= 4 /\ SubSeq(s, Len(s) - 2, Len(s)) = "the" /\ IsSpace(Ch(s, Len(s) - 3))
    THEN RStrip(SubSeq(s, 1, Len(s) - 3)) ELSE s

normalize(label) ==
    IF label = "" THEN ""
    ELSE LET s1 == strip(lower(label))
             s2 == FuseAcronyms(s1, 1)
             s3 == ReplacePunct(s2, 1)
             s4 == strip(CollapseSpaces(s3, 1))
             s5 == BlankLegal(split(s4))
             s6 == StripLeadingThe(s5)
             s7 == StripTrailingThe(s6)
         IN strip(CollapseSpaces(s7, 1))

\* ------------------------------------------------------------------------
\* Business-line differentiators and generic industry terms
\* ------------------------------------------------------------------------

STRONG_DIFFERENTIATORS ==
    {"academy", "agri", "agriculture", "agrochemicals", "airlines",
     "apparel", "appliances", "assurance", "automobiles", "automotive",
     "aviation", "bank", "banking", "beverages", "biotech", "broadcasting",
     "capital", "cement", "chemicals", "clothing", "construction",
     "credit", "diagnostics", "distribution", "education", "educational",
     "electrical", "electronics", "fashion", "fertilizers", "finance",
     "financial", "foods", "garments", "general", "health", "healthcare",
     "holidays", "home", "hospital", "hospitals", "hotel", "hotels",
     "infrastructure", "insurance", "leasing", "lending", "life",
     "logistics", "media", "metals", "microfinance", "mining", "motors",
     "petrochemicals", "petroleum", "pharma", "pharmaceutical",
     "pharmaceuticals", "polymers", "power", "properties", "realty",
     "refinery", "reinsurance", "resort", "resorts", "retail",
     "securities", "seeds", "semiconductors", "shipping", "steel",
     "telecom", "telecommunications", "textile", "textiles", "university",
     "wellness"}

\* broader set — includes all strong differentiators plus less definitive ones
BUSINESS_DIFFERENTIATORS ==
    STRONG_DIFFERENTIATORS \cup
    {"advisory", "aerospace", "amc", "asset", "automation", "broadband",
     "clinical", "communications", "computing", "consultancy",
     "consulting", "consumer", "courier", "defence", "defense",
     "developers", "digital", "energy", "engineering", "entertainment",
     "estates", "fabrics", "factoring", "fertilisers", "fmcg", "freight",
     "fund", "gas", "hfc", "housing", "industrial", "industries",
     "infosystems", "infotech", "institute", "investment", "investments",
     "learning", "manufacturing", "medical", "mutual", "nbfc", "oil",
     "outsourcing", "pesticides", "recruitment", "renewables", "robotics",
     "sciences", "services", "software", "solar", "solutions", "staffing",
     "stores", "systems", "technologies", "technology", "trading",
     "training", "transport", "transportation", "wealth", "wholesale",
     "wind"}


GENERIC_INDUSTRY_TERMS ==
    {"academy", "advanced", "advisor", "advisors", "advisory", "aerospace",
     "air", "airlines", "apparel", "area", "armed", "army", "asset",
     "associate", "associates", "association", "assurance", "authority",
     "automation", "aviation", "bank", "banking", "banks", "bearing",
     "bearings", "beverage", "beverages", "biotech", "biotechnology",
     "board", "branch", "broadband", "broadcasting", "capital", "cement",
     "cements", "chain", "chamber", "chemical", "chemicals", "clinic",
     "clinics", "college", "commerce", "commercial", "commission",
     "communication", "communications", "companies", "company",
     "computing", "construction", "consultancy", "consultant",
     "consultants", "consulting", "consumer", "corporate", "corporation",
     "council", "courier", "credit", "defence", "defense", "department",
     "developer", "developers", "development", "device", "devices",
     "diagnostics", "digital", "director", "directors", "distribution",
     "distributor", "distributors", "division", "divisions", "drug",
     "drugs", "education", "educational", "electric", "electrical",
     "electronic", "electronics", "energy", "engineer", "engineering",
     "engineers", "enterprise", "enterprises", "entertainment", "estate",
     "estates", "exchange", "exchanges", "executive", "fabrics",
     "facilities", "facility", "fashion", "federation", "fertilisers",
     "fertilizers", "finance", "financial", "food", "foods", "force",
     "forces", "foundation", "freight", "fund", "funds", "garments", "gas",
     "global", "government", "govt", "group", "groups", "hardware", "head",
     "healthcare", "holding", "holdings", "hospital", "hospitals",
     "housing", "independent", "india", "indian", "industrial",
     "industries", "industry", "infrastructure", "institute",
     "institution", "institutions", "insurance", "integrated",
     "international", "investment", "investments", "junior", "lab",
     "laboratories", "laboratory", "labs", "learning", "leasing",
     "lending", "limited", "logistics", "machine", "machines",
     "management", "manager", "managers", "manufacturer", "manufacturers",
     "manufacturing", "marketing", "media", "medical", "metals", "micro",
     "mini", "mining", "ministry", "motor", "motors", "mutual", "national",
     "navy", "network", "networks", "new", "officer", "oil", "operation",
     "operations", "organisation", "organization", "outsourcing", "paint",
     "paints", "partners", "partnership", "petrochemical",
     "petrochemicals", "petroleum", "pharma", "pharmaceutical",
     "pharmaceuticals", "plastics", "polymers", "power", "private",
     "procurement", "product", "products", "professional", "professionals",
     "properties", "property", "public", "pvt", "realty", "recruitment",
     "refineries", "refinery", "regional", "research", "retail", "rubber",
     "sales", "school", "sector", "securities", "seeds", "semiconductors",
     "senior", "service", "services", "shipping", "small", "society",
     "software", "solution", "solutions", "staffing", "steel", "steels",
     "stock", "store", "stores", "supply", "system", "systems", "tech",
     "technologies", "technology", "telecom", "telecommunications",
     "textile", "textiles", "tool", "tools", "traders", "trading",
     "training", "transport", "transportation", "trust", "unit",
     "university", "vehicle", "vehicles", "wealth", "welfare", "wireless",
     "works", "worldwide"}

\* _significant_tokens: all non-stopword tokens with length > 1
significant_tokens(norm) ==
    SelectSeq(split(norm), LAMBDA t : t \notin STOPWORDS /\ Len(t) > 1)

\* The order in which Python iterates a set of strings is fixed by the run's
\* hash seed and by nothing in the program.  The model has two seeds, which
\* iterate every set in opposite orders, so that any two members of a set are
\* met in either order.
HashSeeds == {0, 1}
Iter(S) ==
    LET Reversed(seq) == [i \in 1..Len(seq) |-> seq[Len(seq) + 1 - i]]
    IN IF hash_seed = 0 THEN SortedSeq(S) ELSE Reversed(SortedSeq(S))

\* the inner loop of the typo folding: the first tb, in iteration order, that
\* is not matched yet and has fuzz.ratio(ta, tb) >= 80;  <<>> if none
RECURSIVE FirstFuzzyMatch(_, _, _)
FirstFuzzyMatch(ta, tbs, matched_b) ==
    IF Len(tbs) = 0 THEN <<>>
    ELSE IF tbs[1] \notin matched_b /\ RatioAtLeast80(ta, tbs[1]) THEN <<tbs[1]>>
    ELSE FirstFuzzyMatch(ta, Tail(tbs), matched_b)

\* the outer loop: the tokens of only_a taken one by one
RECURSIVE FoldLoop(_, _, _, _)
FoldLoop(tas, tbs, matched_b, real_only_a) ==
    LET Step(m) ==
            IF m = <<>> THEN FoldLoop(Tail(tas), tbs, matched_b, real_only_a \cup {tas[1]})
            ELSE FoldLoop(Tail(tas), tbs, matched_b \cup {m[1]}, real_only_a)
    IN IF Len(tas) = 0 THEN [matched_b |-> matched_b, real_only_a |-> real_only_a]
       ELSE Step(FirstFuzzyMatch(tas[1], tbs, matched_b))

\* Fuzzy-match unique tokens to handle typos: what is left on either side
FuzzyFold(only_a, only_b) ==
    LET Result(f) == [real_only_a |-> f.real_only_a, real_only_b |-> only_b \ f.matched_b]
    IN Result(FoldLoop(Iter(only_a), Iter(only_b), {}, {}))

has_business_conflict(norm_a, norm_b, score) ==
    LET OfFold(real_only_a, real_only_b) ==
            IF real_only_a = {} /\ real_only_b = {} THEN FALSE
            ELSE IF real_only_a = {} \/ real_only_b = {}
                 THEN (IF (real_only_a \cup real_only_b) \cap STRONG_DIFFERENTIATORS # {}
                       THEN score < 9300 ELSE FALSE)
            ELSE IF \/ real_only_a \cap BUSINESS_DIFFERENTIATORS # {}
                    \/ real_only_b \cap BUSINESS_DIFFERENTIATORS # {}
                 THEN score < 9500
            ELSE score < 9000
        OfFolded(f) == OfFold(f.real_only_a, f.real_only_b)
        OfSets(tokens_a, tokens_b) ==
            IF tokens_a \cap tokens_b = {} THEN FALSE
            ELSE IF tokens_a \ tokens_b = {} /\ tokens_b \ tokens_a = {} THEN FALSE
            ELSE OfFolded(FuzzyFold(tokens_a \ tokens_b, tokens_b \ tokens_a))
    IN OfSets(Range(significant_tokens(norm_a)), Range(significant_tokens(norm_b)))

\* ------------------------------------------------------------------------
\* Scoring and the merge decision
\* ------------------------------------------------------------------------

MERGE_THRESHOLD == 8000
AUTO_MERGE_THRESHOLD == 9100

\* 0.30*tsr + 0.25*tse + 0.30*rat + 0.15*par, in units of 1/10000, rounded down
composite_score(a, b) ==
    LET Floor(n, d) == (n \div d) * 100 + ((n % d) * 100) \div d
        Weighted(tsr, tse, rat, par) ==
            Floor(30 * tsr[1] * tse[2] * rat[2] * par[2] + 25 * tse[1] * tsr[2] * rat[2] * par[2]
                  + 30 * rat[1] * tsr[2] * tse[2] * par[2] + 15 * par[1] * tsr[2] * tse[2] * rat[2],
                  tsr[2] * tse[2] * rat[2] * par[2])
    IN IF a = "" \/ b = "" THEN 0
       ELSE Weighted(token_sort_ratio(a, b), token_set_ratio(a, b), ratio(a, b),
                     partial_ratio(a, b))

token_signature(normalized) ==
    join(sorted(SelectSeq(split(normalized), LAMBDA t : t \notin STOPWORDS /\ Len(t) > 1)))

\* a generic industry-term protection that never refuses
GenericProtectionOff(set_a, set_b, score) == FALSE

\* the generic industry-term protection of should_merge: TRUE when it refuses
GenericProtectionBlocks(set_a, set_b, score) ==
    LET OfFold(real_only_a, real_only_b) ==
            \/ real_only_a # {} /\ real_only_b # {}
            \/ /\ (real_only_a = {}) # (real_only_b = {})
               /\ \E tok \in real_only_a \cup real_only_b : tok \notin GENERIC_INDUSTRY_TERMS
               /\ score < 9500
        OfFolded(f) == OfFold(f.real_only_a, f.real_only_b)
    IN /\ set_a \cap set_b # {}
       /\ (set_a \cap set_b) \ GENERIC_INDUSTRY_TERMS = {}
       /\ OfFolded(FuzzyFold(set_a \ set_b, set_b \ set_a))

\* the medium-confidence test: share of tokens of set_a with a fuzzy counterpart
FuzzyOverlapOK(set_a, set_b) ==
    /\ Max(Cardinality(set_a), Cardinality(set_b)) # 0
    /\ 100 * Cardinality({ta \in set_a : \E tb \in set_b : RatioAtLeast80(ta, tb)})
          >= 65 * Max(Cardinality(set_a), Cardinality(set_b))

\* a merge decision without the short-name bridge prevention
ShouldMergeUnguarded(norm_a, norm_b, score) ==
    LET OfSets(set_a, set_b) ==
            IF GenericProtectionBlocks(set_a, set_b, score) THEN FALSE
            ELSE IF has_business_conflict(norm_a, norm_b, score) THEN FALSE
            ELSE IF score >= AUTO_MERGE_THRESHOLD THEN TRUE
            ELSE IF set_a = set_b THEN TRUE
            ELSE FuzzyOverlapOK(set_a, set_b)
    IN IF score < MERGE_THRESHOLD THEN FALSE
       ELSE IF norm_a = norm_b THEN TRUE
       ELSE OfSets(Range(significant_tokens(norm_a)), Range(significant_tokens(norm_b)))

should_merge(norm_a, norm_b, score) ==
    LET OfSets(set_a, set_b) ==
            IF GenericProtectionBlocks(set_a, set_b, score) THEN FALSE
            ELSE IF has_business_conflict(norm_a, norm_b, score) THEN FALSE
            ELSE IF score >= AUTO_MERGE_THRESHOLD THEN TRUE
            ELSE IF set_a = set_b THEN TRUE
            ELSE FuzzyOverlapOK(set_a, set_b)
        OfTokens(tokens_a, tokens_b) ==
            IF Min(Len(tokens_a), Len(tokens_b)) <= 1 /\ score < 9500 THEN FALSE
            ELSE OfSets(Range(tokens_a), Range(tokens_b))
    IN IF score < MERGE_THRESHOLD THEN FALSE
       ELSE IF norm_a = norm_b THEN TRUE
       ELSE OfTokens(significant_tokens(norm_a), significant_tokens(norm_b))

\* ------------------------------------------------------------------------
\* Name cleaning.  The model's alphabet has no middle dot, so
\* _LINKEDIN_SUFFIX_RE never matches and that substitution is the identity;
\* every punctuation mark of the alphabet is in both junk classes.
\* ------------------------------------------------------------------------

\* _LOCATIONS, lower-cased (the pattern is compiled with re.IGNORECASE)
LOCATIONS ==
    {"africa", "agra", "ahmedabad", "amritsar", "asia", "aurangabad",
     "australia", "bangalore", "bengaluru", "bhopal", "bhubaneswar",
     "canada", "chandigarh", "chennai", "china", "cochin", "coimbatore",
     "corporate", "corporate office", "dehradun", "delhi", "delhi/ncr",
     "dubai", "europe", "faridabad", "germany", "ghaziabad", "gurgaon",
     "gurugram", "guwahati", "gwalior", "head office", "hq", "hyderabad",
     "india", "indore", "jabalpur", "jaipur", "jalandhar", "jamnagar",
     "japan", "jodhpur", "kanpur", "kochi", "kolkata", "london", "lucknow",
     "ludhiana", "mangalore", "meerut", "mumbai", "mysore", "mysuru",
     "nagpur", "nashik", "navi mumbai", "ncr", "new delhi", "noida",
     "patna", "pune", "rajkot", "ranchi", "shimla", "siliguri",
     "singapore", "surat", "thane", "thiruvananthapuram", "uae", "udaipur",
     "uk", "usa", "vadodara", "varanasi", "visakhapatnam"}

\* index of the first occurrence of c in s at or after i, Len(s)+1 if none
RECURSIVE IndexOf(_, _, _)
IndexOf(s, c, i) == IF i > Len(s) \/ Ch(s, i) = c THEN i ELSE IndexOf(s, c, i + 1)

\* _PAREN_RE.sub(" ", s):  \s*\([^)]*\)?\s*
RECURSIVE RemoveParens(_, _)
RemoveParens(s, i) ==
    IF i > Len(s) THEN ""
    ELSE LET open == i + SpaceRun(s, i)
         IN IF open <= Len(s) /\ Ch(s, open) = "("
            THEN LET close == IndexOf(s, ")", open + 1)
                     after == IF close <= Len(s) THEN close + 1 ELSE close
                 IN " " \o RemoveParens(s, after + SpaceRun(s, after))
            ELSE Ch(s, i) \o RemoveParens(s, i + 1)

\* _LEADING_JUNK_RE.sub("", s), _TRAILING_JUNK_RE.sub("", s)
RECURSIVE StripLeadingJunk(_)
StripLeadingJunk(s) ==
    IF Len(s) > 0 /\ ~IsWord(Ch(s, 1)) THEN StripLeadingJunk(SubSeq(s, 2, Len(s))) ELSE s
RECURSIVE StripTrailingJunk(_)
StripTrailingJunk(s) ==
    IF Len(s) > 0 /\ ~IsWord(Ch(s, Len(s))) THEN StripTrailingJunk(SubSeq(s, 1, Len(s) - 1)) ELSE s

\* s ends with t
EndsWith(s, t) == Len(s) >= Len(t) /\ SubSeq(s, Len(s) - Len(t) + 1, Len(s)) = t
StartsWithAt(s, t, i) == i + Len(t) - 1 <= Len(s) /\ SubSeq(s, i, i + Len(t) - 1) = t

RECURSIVE StripTrailingSeparators(_)
StripTrailingSeparators(s) ==
    IF Len(s) > 0 /\ (Ch(s, Len(s)) = "," \/ IsSpace(Ch(s, Len(s))))
    THEN StripTrailingSeparators(SubSeq(s, 1, Len(s) - 1)) ELSE s

\* _TRAILING_LOCATION_RE.sub("", s):  [,\s]+(?:locations)\s*$
\* The leftmost match is the one of the longest location that ends the text
\* after a comma or a space.
StripTrailingLocation(s) ==
    LET Hits(low) ==
            {loc \in LOCATIONS :
                /\ EndsWith(low, loc) /\ Len(low) > Len(loc)
                /\ Ch(low, Len(low) - Len(loc)) \in {",", " "}}
        Longest(t, hits) ==
            IF hits = {} THEN s
            ELSE StripTrailingSeparators(
                     SubSeq(t, 1, Len(t) - Len(CHOOSE h \in hits :
                                                  \A g \in hits : Len(g) <= Len(h))))
        Of(t) == Longest(t, Hits(lower(t)))
    IN Of(RStrip(s))

\* the loop "for _ in range(3)" of clean_name, n passes left
RECURSIVE LocationLoop(_, _)
LocationLoop(s, n) ==
    LET Pass(t) == IF t = s THEN s ELSE LocationLoop(t, n - 1)
    IN IF n = 0 THEN s ELSE Pass(StripTrailingJunk(StripTrailingLocation(s)))

\* re.sub(r"(\w)\s+&(\w)", r"\1&\2", s)
RECURSIVE TightenAmpersand(_, _)
TightenAmpersand(s, i) ==
    IF i > Len(s) THEN ""
    ELSE LET k == SpaceRun(s, i + 1)
         IN IF /\ IsWord(Ch(s, i)) /\ k >= 1
               /\ i + k + 2 <= Len(s)
               /\ Ch(s, i + k + 1) = "&" /\ IsWord(Ch(s, i + k + 2))
            THEN Ch(s, i) \o "&" \o Ch(s, i + k + 2) \o TightenAmpersand(s, i + k + 3)
            ELSE Ch(s, i) \o TightenAmpersand(s, i + 1)

LocationPasses == 3

clean_name(label) ==
    IF label = "" THEN ""
    ELSE LET s1 == strip(label)
             s2 == RemoveParens(s1, 1)
             s3 == StripTrailingJunk(StripLeadingJunk(s2))
             s4 == LocationLoop(s3, LocationPasses)
             s5 == CollapseSpaces(s4, 1)
         IN strip(TightenAmpersand(s5, 1))

\* ------------------------------------------------------------------------
\* Garbage detection.  Every pattern is matched with re.IGNORECASE against a
\* cleaned name, whose runs of whitespace are single spaces.
\* ------------------------------------------------------------------------

PlaceholderWords ==
    {"test", "testing", "unknown", "na", "n/a", "none", "null", "tbd", "temp",
     "temporary", "sample", "dummy", "xxx", "zzz", "abc", "asdf", "qwerty",
     "nocompany", "no company", "notapplicable", "not applicable",
     "confidential", "private", "personal", "donotuse", "do notuse", "donot use",
     "do not use", "delete", "removed", "undefined", "current", "present", "same",
     "same as above", "as above", "ditto", "above", "below", "various",
     "multiple", "several", "many", "other", "others", "etc", "misc",
     "miscellaneous"}

AllDigits(s) == \A i \in 1..Len(s) : IsDigit(Ch(s, i))

\* company\s*\d*
IsCompanyNumber(low) ==
    StartsWithAt(low, "company", 1) /\ AllDigits(LStrip(SubSeq(low, 8, Len(low))))

\* _PLACEHOLDER_RE, on the lower-cased name
IsPlaceholder(low) == low \in PlaceholderWords \/ IsCompanyNumber(low)

JobTitles ==
    {"consultant", "advisor", "manager", "director", "engineer", "analyst",
     "developer", "designer", "architect", "teacher", "professor", "lecturer",
     "doctor", "lawyer", "advocate", "attorney", "accountant", "auditor",
     "trainer", "coach", "mentor", "tutor", "instructor", "volunteer", "intern",
     "trainee", "apprentice", "partner", "founder", "cofounder", "co-founder",
     "co founder", "co- founder", "entrepreneur", "ceo", "cto", "cfo", "coo",
     "cio", "cmo", "vp", "svp", "evp", "md", "gm"}

\* w or w followed by "s", for some w of W
InWithPlural(low, W) ==
    low \in W \/ (Len(low) > 1 /\ Ch(low, Len(low)) = "s" /\ SubSeq(low, 1, Len(low) - 1) \in W)

\* _JOB_TITLE_RE, on the lower-cased name
IsJobTitle(low) == InWithPlural(low, JobTitles)

RolePrefixes ==
    {"regional", "branch", "area", "district", "territory", "zone", "zonal",
     "national", "global", "category", "channel", "senior", "junior",
     "assistant", "deputy", "chief", "associate", "executive", "general",
     "central"}
RoleFunctions ==
    {"sales", "marketing", "business", "service", "product", "project",
     "operations", "hr", "human", "resource", "finance", "technical",
     "commercial", "customer", "legal", "supply", "procurement", "logistics",
     "it", "digital"}
RoleNouns ==
    {"manager", "director", "head", "leader", "officer", "supervisor",
     "coordinator", "executive", "president", "counsel"}

\* words 1..k are seniority words ("key account" counts as two words)
RECURSIVE AllRolePrefixes(_, _)
AllRolePrefixes(words, k) ==
    IF k = 0 THEN TRUE
    ELSE \/ words[k] \in RolePrefixes /\ AllRolePrefixes(words, k - 1)
         \/ k >= 2 /\ words[k - 1] = "key" /\ words[k] = "account"
                   /\ AllRolePrefixes(words, k - 2)

\* index of the first non-word character of s at or after i, Len(s)+1 if none
RECURSIVE IndexOfNonWord(_, _)
IndexOfNonWord(s, i) == IF i > Len(s) \/ ~IsWord(Ch(s, i)) THEN i ELSE IndexOfNonWord(s, i + 1)

\* (?:\s*[-]\s*\w+)* up to the end of the text, from index i on
RECURSIVE IsDashTail(_, _)
IsDashTail(s, i) ==
    LET WordEnd(w, e) == e - w >= 1 /\ IsDashTail(s, e)
        Word(w) == WordEnd(w, IndexOfNonWord(s, w))
        Dash(d) == d <= Len(s) /\ Ch(s, d) = "-" /\ Word(d + 1 + SpaceRun(s, d + 1))
    IN IF i > Len(s) THEN TRUE ELSE Dash(i + SpaceRun(s, i))

\* _ROLE_PATTERN_RE, on the lower-cased name: seniority words, function
\* words and a role noun before the first dash, then the dash parts
IsRolePattern(low) ==
    LET Words(words, n) ==
            /\ n >= 2
            /\ InWithPlural(words[n], RoleNouns)
            /\ \E k \in 1..(n - 1) :
                  /\ AllRolePrefixes(words, k)
                  /\ \A j \in (k + 1)..(n - 1) : words[j] \in RoleFunctions
        WordsOf(words) == Words(words, Len(words))
        OfHead(head) ==
            /\ Len(head) > 0 /\ ~IsSpace(Ch(low, 1))
            /\ IsDashTail(low, Len(head) + 1)
            /\ WordsOf(split(head))
    IN OfHead(RStrip(SubSeq(low, 1, IndexOf(low, "-", 1) - 1)))

IndependentRoles ==
    {"consultant", "contractor", "advisor", "professional", "practitioner",
     "researcher", "developer", "designer", "engineer"}

\* _INDEPENDENT_RE, on the lower-cased name
IsIndependent(low) ==
    LET Words(words) ==
            /\ Len(words) = 2 /\ words[1] = "independent"
            /\ InWithPlural(words[2], IndependentRoles)
            /\ ~IsSpace(Ch(low, 1)) /\ ~IsSpace(Ch(low, Len(low)))
    IN Words(split(low))

NonCompanyMarkers ==
    {"freelanc", "self employ", "self-employ", "selfemploy", "unemploy",
     "retired", "retirement", "student", "homemaker", "housewife",
     "looking for job", "looking for work", "looking for opportunit",
     "looking for a job", "job seek", "between jobs", "career break",
     "open to work", "actively seeking"}

\* _NON_COMPANY_RE.search, on the lower-cased name: a marker at the start of
\* the text or after a space
IsNonCompany(low) ==
    \E i \in 1..Len(low) :
       /\ (i = 1 \/ IsSpace(Ch(low, i - 1)))
       /\ \E mk \in NonCompanyMarkers : StartsWithAt(low, mk, i)

\* classify_garbage without its length check
ClassifyLengthBlind(cleaned) ==
    IF cleaned = "" THEN "empty"
    ELSE IF \A i \in 1..Len(cleaned) : ~IsWord(Ch(cleaned, i)) THEN "special_chars_only"
    ELSE IF AllDigits(cleaned) THEN "numeric_only"
    ELSE IF IsPlaceholder(lower(cleaned)) THEN "placeholder"
    ELSE ""

\* the reason a cleaned name is garbage, "" (None) for a valid name; every
\* pattern is matched with re.IGNORECASE, here against the name in lower case
classify_garbage(cleaned) ==
    LET Lowered(low) ==
            IF cleaned = "" THEN "empty"
            ELSE IF Len(cleaned) <= 2
                 THEN "too_short (" \o (IF Len(cleaned) = 1 THEN "1" ELSE "2") \o " chars)"
            ELSE IF \A i \in 1..Len(cleaned) : ~IsWord(Ch(cleaned, i))
                 THEN "special_chars_only"
            ELSE IF AllDigits(cleaned) THEN "numeric_only"
            ELSE IF IsPlaceholder(low) THEN "placeholder"
            ELSE IF IsJobTitle(low) THEN "job_title_not_company"
            ELSE IF IsRolePattern(low) THEN "job_role_not_company"
            ELSE IF IsIndependent(low) THEN "independent_not_company"
            ELSE IF IsNonCompany(low) THEN "non_company (freelance/self-employed/student/etc)"
            ELSE ""
    IN Lowered(lower(cleaned))

\* ------------------------------------------------------------------------
\* Primary selection
\* ------------------------------------------------------------------------

LegalSimpleWords ==
    {"inc", "ltd", "llc", "corp", "plc", "gmbh", "pvt", "limited", "corporation",
     "incorporated"}

\* the maximal runs of word characters of s
RECURSIVE WordsFrom(_, _, _)
WordsFrom(s, i, cur) ==
    IF i > Len(s) THEN (IF cur = "" THEN {} ELSE {cur})
    ELSE IF IsWord(Ch(s, i)) THEN WordsFrom(s, i + 1, cur \o Ch(s, i))
    ELSE (IF cur = "" THEN {} ELSE {cur}) \cup WordsFrom(s, i + 1, "")

HasDoubleSpace(s) == \E i \in 1..(Len(s) - 1) : IsSpace(Ch(s, i)) /\ IsSpace(Ch(s, i + 1))

TypeBonus(source_type) ==
    CASE source_type = "Company"  -> 100
      [] source_type = "Companny" -> 90
      [] source_type = "Group"    -> 50
      [] source_type = "Archived" -> 10
      [] OTHER -> 0

\* primary_score, in units of 1/30 (the length bonus is min(length/30, 1))
primary_score(label, source_type) ==
    IF label = "" \/ Len(strip(label)) < 2 THEN -300
    ELSE 30 * TypeBonus(source_type)
         + (IF label = upper(label) THEN -30
            ELSE IF label = lower(label) THEN -30
            ELSE IF IsUpper(Ch(label, 1)) THEN 60 ELSE 0)
         + (IF WordsFrom(lower(label), 1, "") \cap LegalSimpleWords # {} THEN 30 ELSE 0)
         + (IF Len(strip(label)) >= 5 THEN Min(Len(strip(label)), 30) ELSE 0)
         + (IF HasDoubleSpace(label) \/ label # strip(label) THEN -30 ELSE 0)


\* ------------------------------------------------------------------------
\* Union-Find
\* ------------------------------------------------------------------------

\* UnionFind(): parent and rank are dicts, here functions on the ids seen
EmptyUF == [parent |-> <<>>, rank |-> <<>>]

RECURSIVE Root(_, _)
Root(parent, x) == IF parent[x] = x THEN x ELSE Root(parent, parent[x])

\* the elements from x up to, and without, the root
RECURSIVE PathTo(_, _)
PathTo(parent, x) == IF parent[x] = x THEN {} ELSE {x} \cup PathTo(parent, parent[x])

\* find: initialises x when it is new, compresses the path, returns the root
\* (as root) and the union-find it leaves (as uf)
find(u, x) ==
    LET Compress(v, r, path) ==
            [uf |-> [v EXCEPT !.parent = [y \in DOMAIN v.parent |->
                                             IF y \in path THEN r ELSE v.parent[y]]],
             root |-> r]
        Known(v) == Compress(v, Root(v.parent, x), PathTo(v.parent, x))
    IN Known(IF x \in DOMAIN u.parent THEN u
             ELSE [parent |-> u.parent @@ (x :> x), rank |-> u.rank @@ (x :> 0)])

\* a union that re-parents the element y itself instead of the root of its set
UnionAttachElement(u, x, y) ==
    LET Second(fy, rx) ==
            IF rx = fy.root THEN fy.uf
            ELSE [fy.uf EXCEPT !.parent = [@ EXCEPT ![y] = rx]]
        First(fx) == Second(find(fx.uf, y), fx.root)
    IN First(find(u, x))

\* a union by rank that never raises a rank
UnionNoRankBump(u, x, y) ==
    LET Link(v, rx, ry) ==
            IF rx = ry THEN v
            ELSE IF v.rank[rx] < v.rank[ry] THEN [v EXCEPT !.parent = [@ EXCEPT ![rx] = ry]]
            ELSE [v EXCEPT !.parent = [@ EXCEPT ![ry] = rx]]
        Second(fy, rx) == Link(fy.uf, rx, fy.root)
        First(fx) == Second(find(fx.uf, y), fx.root)
    IN First(find(u, x))

\* union by rank
union(u, x, y) ==
    LET Attach(v, hi, lo) ==
            [parent |-> [v.parent EXCEPT ![lo] = hi],
             rank |-> IF v.rank[hi] = v.rank[lo]
                      THEN [v.rank EXCEPT ![hi] = @ + 1] ELSE v.rank]
        Link(v, rx, ry) ==
            IF rx = ry THEN v
            ELSE IF v.rank[rx] < v.rank[ry] THEN Attach(v, ry, rx)
            ELSE Attach(v, rx, ry)
        Second(fy, rx) == Link(fy.uf, rx, fy.root)
        First(fx) == Second(find(fx.uf, y), fx.root)
    IN First(find(u, x))

\* groups(): root -> the set of its members
groups(u) ==
    LET roots == {Root(u.parent, x) : x \in DOMAIN u.parent}
    IN [r \in roots |-> {x \in DOMAIN u.parent : Root(u.parent, x) = r}]

\* the union-find after groups() has called find on every element
Compressed(u) == [u EXCEPT !.parent = [x \in DOMAIN u.parent |-> Root(u.parent, x)]]

\* u after union(p[1], p[2]) for the pairs p of a sequence, in order
RECURSIVE UnionAll(_, _)
UnionAll(u, pairs) ==
    LET Rest(v) == IF DOMAIN v.parent # {} THEN UnionAll(v, Tail(pairs)) ELSE v
    IN IF Len(pairs) = 0 THEN u ELSE Rest(union(u, pairs[1][1], pairs[1][2]))

\* u after find(x) for the elements x of a sequence, in order
RECURSIVE FindAll(_, _)
FindAll(u, xs) == IF Len(xs) = 0 THEN u ELSE FindAll(find(u, xs[1]).uf, Tail(xs))

\* sorted(set of ids)
RECURSIVE SortedIds(_)
SortedIds(S) ==
    IF S = {} THEN <<>>
    ELSE LET m == CHOOSE x \in S : \A y \in S : x <= y IN <<m>> \o SortedIds(S \ {m})

\* <<ml[i], ml[j]>> for i < j, in the order of the nested loops
RECURSIVE PairsInOrder(_)
PairsInOrder(ml) ==
    IF Len(ml) < 2 THEN <<>>
    ELSE [k \in 1..(Len(ml) - 1) |-> <<ml[1], ml[k + 1]>>] \o PairsInOrder(Tail(ml))

\* <<ml[0], ml[k]>> for k >= 1
StarPairs(ml) == [k \in 1..(Len(ml) - 1) |-> <<ml[1], ml[k + 1]>>]

\* ------------------------------------------------------------------------
\* The input of a run
\* ------------------------------------------------------------------------

\* The rows of masters the model runs on come from families of labels; a
\* row's id is the place of its label in the family.
Families ==
    << << <<"Alpha", "Company">>, <<"Alpha Home Finance", "Company">>,
          <<"Alpha DBS Finance", "Group">>, <<"alpha home finance ltd", "Archived">> >>,
       << <<"Tata Motors", "Company">>, <<"Tata Motors Finance", "Company">>,
          <<"Tata Motors Ltd, Mumbai", "Archived">>, <<"Manager", "Company">> >>,
       << <<"Alpha Consulting", "Company">>, <<"Beta Consulting", "Company">>,
          <<"ALPHA CONSULTING (India)", "">>, <<"123", "Company">> >>,
       << <<"HP Inc", "Company">>, <<"HP Ltd", "Company">>, <<"Pvt Ltd", "Group">>,
          <<"N/A", "Company">> >>,
       << <<"Infosys Technologies", "Company">>, <<"Infosys Technology", "Company">>,
          <<"Infosys Tecnology", "Archived">>, <<"Infoys Tcnoloy", "Company">> >>,
       << <<"Tata Home Homes", "Company">>, <<"Tata Homee", "Company">>,
          <<"Tata Homee Inc", "Company">>, <<"Student", "Company">> >>,
       << <<"Sundaram Clayton", "Company">>, <<"Sundram Claytons Home", "Company">>,
          <<"Sundaram Clayton Ltd", "Companny">>, <<"", "Company">> >>,
       << <<"Tata Motors Body Unit", "Company">>, <<"Tata Motors", "Company">>,
          <<"Tata Motors Financ", "Company">>, <<"Tata Motors Finance", "Company">> >>,
       << <<"Sun Tata Sons", "Company">>, <<"Tata Sons Sun", "Company">>,
          <<"Tata Sonss Sun", "Company">>, <<"Infosys Technologies", "Company">>,
          <<"Infosys Technology", "Company">> >>,
       << <<"Kiraan Kiran", "Company">>, <<"Birlaa Kirane", "Company">> >> >>

\* the largest number of rows of an input
MaxRecords == 5

\* the rows of family f whose places are in the set P, in order
RowsOf(f, P) ==
    LET ids == SortedIds(P)
    IN [k \in 1..Len(ids) |-> <<ids[k], Families[f][ids[k]][1], Families[f][ids[k]][2]>>]

Inputs ==
    {RowsOf(f, P) : <<f, P>> \in
        {fp \in (1..Len(Families)) \X SUBSET (1..MaxRecords) :
            /\ fp[2] \subseteq 1..Len(Families[fp[1]])
            /\ Cardinality(fp[2]) \in 1..MaxRecords}}

\* composite_score of the pairs of normalised names a run can compare,
\* computed once
ScoreTable ==
    [p \in UNION {{<<normalize(clean_name(f[i][1])), normalize(clean_name(f[j][1]))>> :
                      i, j \in 1..Len(f)} : f \in Range(Families)} |->
        composite_score(p[1], p[2])]

Score(a, b) == ScoreTable[<<a, b>>]

\* ------------------------------------------------------------------------
\* main(): the steps of a run
\* ------------------------------------------------------------------------

MAX_BLOCK == 350
\* the oversize limit of the splitter (50 in the program), scaled to the inputs
MAX_GROUP_SIZE == 2
TIGHT_THRESHOLD == 9000

NoText ==
    /\ t_x = "" /\ t_y = "" /\ t_norm = <<>> /\ t_reason = "unset" /\ t_score = <<>>
    /\ t_clean = "unset"

NoDedup ==
    /\ use_openrouter = FALSE /\ unique_label = "none" /\ masters = <<>>
    /\ pair_scores = <<>> /\ probable_pairs = <<>> /\ next_pair = 1 /\ ai_calls_made = 0
    /\ attempt = 0 /\ pair_ai = <<>> /\ ai_confirmed = {} /\ new_inserts = <<>>
    /\ final_result = {}

Blank ==
    /\ all_records = <<>> /\ id_to_norm = <<>> /\ candidate_pairs = {} /\ pending = {}
    /\ uf = EmptyUF /\ merged = {} /\ raw_groups = <<>> /\ id_to_group = <<>>
    /\ id_is_primary = <<>> /\ output = <<>>
    /\ uf_plain = <<>> /\ uf_calls = 0


Init ==
    /\ all_rows \in Inputs
    /\ hash_seed \in HashSeeds
    /\ pc = "clean"
    /\ run = 1
    /\ prev_partition = {} /\ prev_primaries = {}
    /\ Blank
    /\ m_a = "" /\ m_b = "" /\ m_score = 0 /\ m_result = "none"
    /\ NoText
    /\ NoDedup

\* 3. Clean & classify: the record of one row
CleanRecord(row) ==
    LET OfReason(cleaned, reason) ==
            [rid |-> row[1], cleaned |-> cleaned, original |-> row[2],
             rtype |-> IF row[3] = "" THEN "Unknown" ELSE row[3],
             is_valid |-> IF reason # "" THEN 0 ELSE 1, reason |-> reason]
        OfCleaned(cleaned) == OfReason(cleaned, classify_garbage(cleaned))
    IN OfCleaned(clean_name(row[2]))

\* a lookup builder that takes every record, valid or not
AllIds(records) == {records[k].rid : k \in 1..Len(records)}

ValidIds(records) ==
    {records[k].rid : k \in {j \in 1..Len(records) :
                                records[j].is_valid = 1 /\ records[j].cleaned # ""}}

RecordOf(records, rid) == records[CHOOSE k \in 1..Len(records) : records[k].rid = rid]

id_to_cleaned == [rid \in ValidIds(all_records) |-> RecordOf(all_records, rid).cleaned]
id_to_type == [k \in {all_records[j].rid : j \in 1..Len(all_records)} |->
                  RecordOf(all_records, k).rtype]

\* 4. Build lookups
NormsOfRecords(records) ==
    [rid \in ValidIds(records) |-> normalize(RecordOf(records, rid).cleaned)]

CleanAndClassify ==
    /\ pc = "clean"
    /\ all_records' = [k \in 1..Len(all_rows) |-> CleanRecord(all_rows[k])]
    /\ id_to_norm' = NormsOfRecords(all_records')
    /\ pc' = "block"
    /\ UNCHANGED <<all_rows, hash_seed, candidate_pairs, pending, uf, merged, raw_groups,
                   id_to_group, id_is_primary, output, run, prev_partition, prev_primaries,
                   m_a, m_b, m_score, m_result, text_vars, dedup_vars, uf_plain, uf_calls>>

\* 5. Blocking: the keys of a normalised name, one dict per strategy
BlockWords(norm) == SelectSeq(split(norm), LAMBDA w : w \notin STOPWORDS /\ Len(w) > 2)

BlockKeys(norm) ==
    LET tsig == token_signature(norm)
        words == BlockWords(norm)
    IN (IF Len(norm) >= 3 THEN {<<"prefix3", Prefix(norm, 3)>>} ELSE {})
       \cup (IF Len(norm) >= 4 THEN {<<"prefix4", Prefix(norm, 4)>>} ELSE {})
       \cup (IF tsig # "" /\ Len(split(tsig)) > 1 THEN {<<"token", tsig>>} ELSE {})
       \cup (IF Len(words) > 0 THEN {<<"first_word", words[1]>>} ELSE {})
       \cup {<<"word_prefix", Prefix(words[k], 5)>> :
                k \in {j \in 1..Len(words) : Len(words[j]) > 4}}
       \cup (IF Len(words) >= 2
             THEN {<<"compound", words[1] \o "_" \o Prefix(words[2], 3)>>} ELSE {})

Block(norms, key) == {rid \in DOMAIN norms : key \in BlockKeys(norms[rid])}

\* the loop over the blocks without its test on the size of a block
CandidatePairsUncapped(norms, max_block) ==
    LET keys == UNION {BlockKeys(norms[rid]) : rid \in DOMAIN norms}
    IN {p \in (DOMAIN norms) \X (DOMAIN norms) :
           p[1] < p[2] /\ \E key \in keys : {p[1], p[2]} \subseteq Block(norms, key)}

\* the loop over the blocks of the six dicts with the limit max_block: a block
\* is skipped "if len(members) < 2 or len(members) > MAX_BLOCK", and the pairs
\* (ml[i], ml[j]), i < j, of the sorted members are added to a set
CandidatePairsUpTo(norms, max_block) ==
    LET keys == UNION {BlockKeys(norms[rid]) : rid \in DOMAIN norms}
        kept == {key \in keys : ~(Cardinality(Block(norms, key)) < 2
                                  \/ Cardinality(Block(norms, key)) > max_block)}
    IN {p \in (DOMAIN norms) \X (DOMAIN norms) :
           p[1] < p[2] /\ \E key \in kept : {p[1], p[2]} \subseteq Block(norms, key)}

CandidatePairs(norms) == CandidatePairsUpTo(norms, MAX_BLOCK)

Blocking ==
    /\ pc = "block"
    /\ candidate_pairs' = CandidatePairs(id_to_norm)
    /\ pending' = candidate_pairs'
    /\ uf' = EmptyUF
    /\ pc' = "score"
    /\ UNCHANGED <<all_rows, hash_seed, all_records, id_to_norm, merged, raw_groups,
                   id_to_group, id_is_primary, output, run, prev_partition, prev_primaries,
                   m_a, m_b, m_score, m_result, text_vars, dedup_vars, uf_plain, uf_calls>>

\* id_to_norm.get(rid, "")
NormOf(rid) == IF rid \in DOMAIN id_to_norm THEN id_to_norm[rid] ELSE ""

\* the test of the scoring loop on one candidate pair
AcceptsPair(na, nb) ==
    /\ na # "" /\ nb # ""
    /\ \/ na = nb
       \/ should_merge(na, nb, Score(na, nb))

\* 6. Score & merge: one pass of the loop; candidate_pairs is a set, and
\* the loop meets its pairs in no order the program fixes
ScorePair ==
    /\ pc = "score"
    /\ \E p \in pending :
          /\ pending' = pending \ {p}
          /\ IF AcceptsPair(NormOf(p[1]), NormOf(p[2]))
             THEN /\ uf' = union(uf, p[1], p[2])
                  /\ merged' = merged \cup {p}
             ELSE UNCHANGED <<uf, merged>>
    /\ UNCHANGED <<all_rows, hash_seed, pc, all_records, id_to_norm, candidate_pairs,
                   raw_groups, id_to_group, id_is_primary, output, run, prev_partition, prev_primaries,
                   m_a, m_b, m_score, m_result, text_vars, dedup_vars, uf_plain, uf_calls>>

\* the test of the splitter on one pair of an oversized group
SplitterAccepts(p) ==
    LET Tight(na, nb, sc) == sc >= TIGHT_THRESHOLD /\ should_merge(na, nb, sc)
        Accepts(na, nb) ==
            /\ na # "" /\ nb # ""
            /\ \/ na = nb
               \/ Tight(na, nb, Score(na, nb))
    IN Accepts(NormOf(p[1]), NormOf(p[2]))

\* the pairs of an oversized group the splitter unions, in loop order
SplitterUnions(members) == SelectSeq(PairsInOrder(SortedIds(members)), SplitterAccepts)

\* sub_uf of an oversized group after its double loop
SubUF(members) == UnionAll(FindAll(EmptyUF, SortedIds(members)), SplitterUnions(members))

\* a rebuild that forgets the groups that were not oversized
KeptUnionsNone(raw, roots) == <<>>

\* a rebuild that chains every grouped record to the first one
RedoneUnionsAcross(raw, roots) == StarPairs(SortedIds(UNION {raw[r] : r \in DOMAIN raw}))

\* the unions of the rebuild: the groups that are not oversized are chained
\* to their first member, the oversized ones go through the splitter again
\* (roots are taken in ascending order; the order fixes the shape of the
\* rebuilt forest and not its groups)
RECURSIVE KeptUnions(_, _)
KeptUnions(raw, roots) ==
    IF Len(roots) = 0 THEN <<>>
    ELSE StarPairs(SortedIds(raw[roots[1]])) \o KeptUnions(raw, Tail(roots))
RECURSIVE RedoneUnions(_, _)
RedoneUnions(raw, roots) ==
    IF Len(roots) = 0 THEN <<>>
    ELSE SplitterUnions(raw[roots[1]]) \o RedoneUnions(raw, Tail(roots))

\* a post-processing step that leaves every group as the scoring loop made it
SplitNothing ==
    /\ pc = "score" /\ pending = {}
    /\ raw_groups' = groups(uf)
    /\ uf' = Compressed(uf)
    /\ pc' = "select"
    /\ UNCHANGED <<all_rows, hash_seed, all_records, id_to_norm, candidate_pairs,
                   pending, merged, id_to_group, id_is_primary, output, run,
                   prev_partition, prev_primaries, m_a, m_b, m_score, m_result, text_vars, dedup_vars, uf_plain, uf_calls>>

\* 6b. Post-processing: split oversized groups
SplitOversized ==
    LET Rebuild(kept, redone) ==
            /\ uf' = Compressed(UnionAll(UnionAll(EmptyUF, kept), redone))
            /\ merged' = merged \cup Range(redone)
        Groups(raw, oversized) ==
            IF \E r \in oversized : Cardinality(DOMAIN groups(SubUF(raw[r]))) > 1
            THEN Rebuild(KeptUnions(raw, SortedIds(DOMAIN raw \ oversized)),
                         RedoneUnions(raw, SortedIds(oversized)))
            ELSE /\ uf' = Compressed(uf)
                 /\ merged' = merged
        Raw(raw) ==
            /\ raw_groups' = raw
            /\ Groups(raw, {r \in DOMAIN raw : Cardinality(raw[r]) > MAX_GROUP_SIZE})
    IN /\ pc = "score" /\ pending = {}
       /\ Raw(groups(uf))
       /\ pc' = "select"
       /\ UNCHANGED <<all_rows, hash_seed, all_records, id_to_norm, candidate_pairs,
                      pending, id_to_group, id_is_primary, output, run, prev_partition, prev_primaries,
                      m_a, m_b, m_score, m_result, text_vars, dedup_vars, uf_plain, uf_calls>>

\* the score of a member in the election of its group's primary
MemberScore(mid) ==
    primary_score(IF mid \in DOMAIN id_to_cleaned THEN id_to_cleaned[mid] ELSE "",
                  IF mid \in DOMAIN id_to_type THEN id_to_type[mid] ELSE "Company")

\* 7. Build groups & select primaries.  The sort is stable, so among the
\* members of highest score the one the set yields first is elected.
SelectPrimaries ==
    /\ pc = "select"
    /\ LET g == groups(uf)
           top(r) == {m \in g[r] : \A o \in g[r] : MemberScore(o) <= MemberScore(m)}
       IN \E best_id \in [DOMAIN g -> DOMAIN uf.parent] :
             /\ \A r \in DOMAIN g : best_id[r] \in top(r)
             /\ LET grouped == DOMAIN uf.parent
                    ids == grouped \cup DOMAIN id_to_cleaned
                IN /\ id_to_group' = [mid \in ids |->
                          IF mid \in grouped THEN best_id[Root(uf.parent, mid)] ELSE mid]
                   /\ id_is_primary' = [mid \in ids |->
                          IF mid \in grouped
                          THEN (IF mid = best_id[Root(uf.parent, mid)] THEN 1 ELSE 0)
                          ELSE 1]
    /\ uf' = Compressed(uf)
    /\ pc' = "insert"
    /\ UNCHANGED <<all_rows, hash_seed, all_records, id_to_norm, candidate_pairs, pending,
                   merged, raw_groups, output, run, prev_partition, prev_primaries,
                   m_a, m_b, m_score, m_result, text_vars, dedup_vars, uf_plain, uf_calls>>

\* a writer of rows that gives every record its own id as group
OutputRowOwnGroup(rec) ==
    [company_name |-> rec.cleaned, original_name |-> rec.original, master_id |-> rec.rid,
     source_type |-> rec.rtype, group_id |-> rec.rid,
     is_primary |-> IF rec.is_valid = 1 THEN 1 ELSE 0,
     is_valid |-> rec.is_valid, filter_reason |-> rec.reason]

\* a writer of rows that names a group by the root of its union-find set
OutputRowRootGroup(rec) ==
    [company_name |-> rec.cleaned, original_name |-> rec.original, master_id |-> rec.rid,
     source_type |-> rec.rtype,
     group_id |-> IF rec.is_valid = 1 /\ rec.rid \in DOMAIN uf.parent
                  THEN Root(uf.parent, rec.rid) ELSE rec.rid,
     is_primary |-> IF rec.is_valid = 1
                    THEN (IF rec.rid \in DOMAIN id_is_primary THEN id_is_primary[rec.rid] ELSE 1)
                    ELSE 0,
     is_valid |-> rec.is_valid, filter_reason |-> rec.reason]

\* a writer of rows that marks every valid record as a primary
OutputRowAllPrimary(rec) ==
    [company_name |-> rec.cleaned, original_name |-> rec.original, master_id |-> rec.rid,
     source_type |-> rec.rtype,
     group_id |-> IF rec.is_valid = 1
                  THEN (IF rec.rid \in DOMAIN id_to_group THEN id_to_group[rec.rid] ELSE rec.rid)
                  ELSE rec.rid,
     is_primary |-> IF rec.is_valid = 1 THEN 1 ELSE 0,
     is_valid |-> rec.is_valid, filter_reason |-> rec.reason]

\* 8. Insert: one row of balanced_result per record
OutputRow(rec) ==
    [company_name |-> rec.cleaned, original_name |-> rec.original, master_id |-> rec.rid,
     source_type |-> rec.rtype,
     group_id |-> IF rec.is_valid = 1
                  THEN (IF rec.rid \in DOMAIN id_to_group THEN id_to_group[rec.rid] ELSE rec.rid)
                  ELSE rec.rid,
     is_primary |-> IF rec.is_valid = 1
                    THEN (IF rec.rid \in DOMAIN id_is_primary THEN id_is_primary[rec.rid] ELSE 1)
                    ELSE 0,
     is_valid |-> rec.is_valid, filter_reason |-> rec.reason]

\* an insert that writes the rows of the valid records only
InsertValidOnly ==
    /\ pc = "insert"
    /\ output' = [k \in 1..Len(SelectSeq(all_records, LAMBDA rec : rec.is_valid = 1)) |->
                     OutputRow(SelectSeq(all_records, LAMBDA rec : rec.is_valid = 1)[k])]
    /\ pc' = "done"
    /\ UNCHANGED <<all_rows, hash_seed, all_records, id_to_norm, candidate_pairs, pending,
                   uf, merged, raw_groups, id_to_group, id_is_primary, run, prev_partition, prev_primaries,
                   m_a, m_b, m_score, m_result, text_vars, dedup_vars, uf_plain, uf_calls>>

Insert ==
    /\ pc = "insert"
    /\ output' = [k \in 1..Len(all_records) |-> OutputRow(all_records[k])]
    /\ pc' = "done"
    /\ UNCHANGED <<all_rows, hash_seed, all_records, id_to_norm, candidate_pairs, pending,
                   uf, merged, raw_groups, id_to_group, id_is_primary, run, prev_partition, prev_primaries,
                   m_a, m_b, m_score, m_result, text_vars, dedup_vars, uf_plain, uf_calls>>

\* the rows of the output and its clusters
ValidRows == {r \in Range(output) : r.is_valid = 1}
\* the partition of the valid records the run ended with
FinalPartition == {{r.master_id : r \in {q \in ValidRows : q.group_id = gid}} :
                      gid \in {r.group_id : r \in ValidRows}}

\* The job is run again from scratch on the same rows, by a new interpreter
Rerun ==
    /\ pc = "done" /\ run < 2
    /\ prev_partition' = FinalPartition
    /\ prev_primaries' = {r.master_id : r \in {q \in ValidRows : q.is_primary = 1}}
    /\ run' = run + 1
    /\ hash_seed' \in HashSeeds
    /\ pc' = "clean"
    /\ all_records' = <<>> /\ id_to_norm' = <<>> /\ candidate_pairs' = {} /\ pending' = {}
    /\ uf' = EmptyUF /\ merged' = {} /\ raw_groups' = <<>> /\ id_to_group' = <<>>
    /\ id_is_primary' = <<>> /\ output' = <<>>
    /\ UNCHANGED <<all_rows, m_a, m_b, m_score, m_result, text_vars, dedup_vars, uf_plain, uf_calls>>

Next ==
    \/ CleanAndClassify
    \/ Blocking
    \/ ScorePair
    \/ SplitOversized
    \/ SelectPrimaries
    \/ Insert
    \/ Rerun

Spec == Init /\ [][Next]_vars

\* ------------------------------------------------------------------------
\* The merge decision on its own
\* ------------------------------------------------------------------------

\* the pairs of normalised names the decision is asked about
MergePairs == {p \in DOMAIN ScoreTable : p[1] # "" /\ p[2] # ""}

\* scores on either side of every threshold of the decision
ScoreSamples == {7999, 8000, 8999, 9000, 9099, 9100, 9299, 9300, 9499, 9500, 10000}

InitMerge ==
    /\ \E p \in MergePairs :
          /\ m_a = p[1] /\ m_b = p[2]
          /\ m_score \in ScoreSamples \cup {Score(p[1], p[2])}
    /\ m_result = "none"
    /\ hash_seed \in HashSeeds
    /\ pc = "decide"
    /\ all_rows = <<>> /\ run = 1 /\ prev_partition = {} /\ prev_primaries = {}
    /\ Blank
    /\ NoText
    /\ NoDedup

\* one call of should_merge
Decide ==
    /\ pc = "decide"
    /\ m_result' = IF should_merge(m_a, m_b, m_score) THEN "merge" ELSE "reject"
    /\ pc' = "decided"
    /\ UNCHANGED <<all_rows, hash_seed, all_records, id_to_norm, candidate_pairs, pending,
                   uf, merged, raw_groups, id_to_group, id_is_primary, output, run,
                   prev_partition, prev_primaries, m_a, m_b, m_score, text_vars, dedup_vars, uf_plain, uf_calls>>

NextMerge == Decide

SpecMerge == InitMerge /\ [][NextMerge]_vars

\* ------------------------------------------------------------------------
\* The text functions on their own
\* ------------------------------------------------------------------------

\* texts with legal suffixes, the article, ampersand acronyms, digits,
\* placeholders, trailing locations (two, and more than the loop of clean_name
\* has passes), and the empty text
Texts ==
    {"", "7", "12", "123", "2024", "ab", "test", "N/A", "tbd", "Ltd The Tata",
     "The Tata Motors Ltd", "Tata Motors Finance", "H&M Pvt Ltd", "A & B and C",
     "Infosys Technologies", "Infosys Tecnology",
     "Acme Pune, India", "Acme Mumbai Delhi Pune India"}

\* how many times in a row normalize is applied
NormalizePasses == 2

InitText ==
    /\ t_x \in Texts /\ t_y \in Texts
    /\ t_norm = <<>> /\ t_reason = "unset" /\ t_score = <<>> /\ t_clean = "unset"
    /\ pc = "text"
    /\ hash_seed = 0 /\ all_rows = <<>> /\ run = 1 /\ prev_partition = {} /\ prev_primaries = {}
    /\ Blank
    /\ m_a = "" /\ m_b = "" /\ m_score = 0 /\ m_result = "none"
    /\ NoDedup

main_vars == <<all_rows, hash_seed, pc, all_records, id_to_norm, candidate_pairs, pending,
               uf, merged, raw_groups, id_to_group, id_is_primary, output, run,
               prev_partition, prev_primaries, m_a, m_b, m_score, m_result>>

\* normalize applied to the text, then to its own result
ApplyNormalize ==
    /\ pc = "text"
    /\ Len(t_norm) < NormalizePasses
    /\ t_norm' = Append(t_norm, normalize(IF t_norm = <<>> THEN t_x ELSE t_norm[Len(t_norm)]))
    /\ UNCHANGED <<main_vars, dedup_vars, uf_plain, uf_calls, t_clean, t_x, t_y, t_reason, t_score>>

ApplyClassify ==
    /\ pc = "text"
    /\ t_reason = "unset"
    /\ t_reason' = classify_garbage(t_x)
    /\ UNCHANGED <<main_vars, dedup_vars, uf_plain, uf_calls, t_clean, t_x, t_y, t_norm, t_score>>

\* composite_score of the two normalised texts, asked both ways round
ApplyScore ==
    /\ pc = "text"
    /\ t_score = <<>>
    /\ t_score' = <<composite_score(normalize(t_x), normalize(t_y)),
                    composite_score(normalize(t_y), normalize(t_x))>>
    /\ UNCHANGED <<main_vars, dedup_vars, uf_plain, uf_calls, t_clean, t_x, t_y, t_norm, t_reason>>

\* clean_name of the text
ApplyClean ==
    /\ pc = "text"
    /\ t_clean = "unset"
    /\ t_clean' = clean_name(t_x)
    /\ UNCHANGED <<main_vars, dedup_vars, uf_plain, uf_calls, t_x, t_y, t_norm, t_reason, t_score>>

NextText ==
    \/ ApplyNormalize
    \/ ApplyClassify
    \/ ApplyScore
    \/ ApplyClean

SpecText == InitText /\ [][NextText]_vars

\* ------------------------------------------------------------------------
\* dedup.py: the text functions of the oracle-assisted run
\* ------------------------------------------------------------------------

\* dedup.py's normalize: no acronym fusing, and a longer list of legal words.
\* LEGAL_SUFFIX_RE is applied to text that holds only word characters and
\* single spaces, where each alternative can match a whole word only
dedup_normalize(label) ==
    LET LegalWords ==
            {"incorporated", "inc", "llc", "limited", "ltd", "corporation", "corp",
             "company", "co", "plc", "gmbh", "ag", "sa", "nv", "pvt", "private", "lp",
             "llp", "group", "holding", "holdings", "enterprise", "enterprises",
             "international", "technology", "technologies", "consulting", "advisor",
             "advisors", "industries"}
        RECURSIVE Drop(_)
        Drop(words) ==
            IF Len(words) = 0 THEN ""
            ELSE (IF words[1] \in LegalWords THEN "" ELSE words[1])
                 \o (IF Len(words) = 1 THEN "" ELSE " " \o Drop(Tail(words)))
        Articles(s) == strip(CollapseSpaces(StripTrailingThe(StripLeadingThe(s)), 1))
    IN IF label = "" THEN ""
       ELSE Articles(Drop(split(strip(CollapseSpaces(ReplacePunct(strip(lower(label)), 1), 1)))))

\* 0.30*tsr + 0.30*tse + 0.20*rat + 0.20*par, in units of 1/10000, rounded down
dedup_composite_score(a, b) ==
    LET Floor(n, d) == (n \div d) * 100 + ((n % d) * 100) \div d
        Weighted(tsr, tse, rat, par) ==
            Floor(30 * tsr[1] * tse[2] * rat[2] * par[2] + 30 * tse[1] * tsr[2] * rat[2] * par[2]
                  + 20 * rat[1] * tsr[2] * tse[2] * par[2] + 20 * par[1] * tsr[2] * tse[2] * rat[2],
                  tsr[2] * tse[2] * rat[2] * par[2])
    IN IF a = "" \/ b = "" THEN 0
       ELSE Weighted(token_sort_ratio(a, b), token_set_ratio(a, b), ratio(a, b),
                     partial_ratio(a, b))

\* the local oracle: <<same_company, confidence>>, the confidence in units of
\* 1/100 (the code rounds it to 2 decimals); score in units of 1/10000
local_ai_validate(label_a, label_b, norm_a, norm_b, score) ==
    LET Contains(lo, sh) == \E i \in 1..(Len(lo) - Len(sh) + 1) : SubSeq(lo, i, i + Len(sh) - 1) = sh
        RECURSIVE Initials(_)
        Initials(words) ==
            IF Len(words) = 0 THEN ""
            ELSE (IF IsLower(Ch(words[1], 1)) \/ IsUpper(Ch(words[1], 1))
                  THEN upper(Ch(words[1], 1)) ELSE "") \o Initials(Tail(words))
        RECURSIVE Squeeze(_, _)
        Squeeze(s, i) ==
            IF i > Len(s) THEN ""
            ELSE (IF Ch(s, i) \in {".", " "} THEN "" ELSE Ch(s, i)) \o Squeeze(s, i + 1)
        InitialsMatch(sa, sb) ==
            LET Of(sl, li) == Len(Squeeze(upper(sl), 1)) \in 2..5 /\ Squeeze(upper(sl), 1) = li
            IN IF Len(sa) < Len(sb)
               THEN Of(sa, IF sa = sb THEN Initials(split(label_a)) ELSE Initials(split(label_b)))
               ELSE Of(sb, Initials(split(label_a)))
        Default == <<FALSE, ((10000 - score) + 50) \div 100>>
        Rule6(ta, tb) ==
            IF score >= 7800 /\ ta # {} /\ tb # {}
               /\ 10 * Cardinality(ta \cap tb) >= 3 * Min(Cardinality(ta), Cardinality(tb))
            THEN <<TRUE, (score * 80 + 5000) \div 10000>> ELSE Default
        Rule5(ta, tb) ==
            IF score >= 8200 /\ ta # {} /\ tb # {}
               /\ 2 * Cardinality(ta \cap tb) >= Min(Cardinality(ta), Cardinality(tb))
            THEN <<TRUE, (score * 95 + 5000) \div 10000>> ELSE Rule6(ta, tb)
        Rule4(ta, tb) ==
            IF ta # {} /\ tb # {} /\ score >= 7500 /\ InitialsMatch(strip(label_a), strip(label_b))
            THEN <<TRUE, 80>> ELSE Rule5(ta, tb)
        Rule3(ta, tb, sh, lo) ==
            IF Len(sh) >= 4 /\ Contains(lo, sh)
            THEN <<TRUE, (82000 + score + 500) \div 1000>> ELSE Rule4(ta, tb)
        Ordered(ta, tb, la, lb) ==
            IF Len(la) <= Len(lb) THEN Rule3(ta, tb, la, lb) ELSE Rule3(ta, tb, lb, la)
        Rule2(ta, tb, n, k) ==
            IF ta # {} /\ tb # {} /\ (ta \subseteq tb \/ tb \subseteq ta)
               /\ 10 * k >= 6 * n /\ score >= 7800
            THEN <<TRUE, (2 * (80 * n + 15 * k) + n) \div (2 * n)>>
            ELSE Ordered(ta, tb, strip(lower(label_a)), strip(lower(label_b)))
        OfSets(ta, tb) ==
            Rule2(ta, tb, Max(Cardinality(ta), Cardinality(tb)), Cardinality(ta \cap tb))
    IN IF norm_a = norm_b THEN <<TRUE, 99>>
       ELSE OfSets(Range(split(norm_a)) \ STOPWORDS, Range(split(norm_b)) \ STOPWORDS)

\* dedup.py's primary_score, in units of 1/30
dedup_primary_score(label) ==
    LET Extraneous(c) == ~(IsWord(c) \/ IsSpace(c) \/ c \in {".", ",", "&", "(", ")", "-", "/", "'"})
        Garbage(low) ==
            low \in {"test", "unknown", "n/a", "na", "none", "--", "-"} \/ IsCompanyNumber(low)
    IN IF label = "" \/ Len(strip(label)) < 2 THEN -300
       ELSE (IF label = upper(label) THEN -30
             ELSE IF label = lower(label) THEN -30
             ELSE IF IsUpper(Ch(label, 1)) THEN 60 ELSE 0)
            + (IF WordsFrom(lower(label), 1, "") \cap LegalSimpleWords # {} THEN 30 ELSE 0)
            + (IF Len(strip(label)) >= 5 THEN Min(Len(strip(label)), 30) ELSE 0)
            + (IF HasDoubleSpace(label) \/ label # strip(label) THEN -30 ELSE 0)
            + (IF \E i \in 1..Len(label) : Extraneous(Ch(label, i)) THEN -30 ELSE 0)
            + (IF Garbage(lower(strip(label))) THEN -150 ELSE 0)

\* str.title(): a letter after a letter is lowered, any other letter is raised
title(s) ==
    LET IsAlpha(c) == IsLower(c) \/ IsUpper(c)
        RECURSIVE From(_)
        From(i) ==
            IF i > Len(s) THEN ""
            ELSE (IF i > 1 /\ IsAlpha(Ch(s, i - 1)) THEN lower(Ch(s, i)) ELSE upper(Ch(s, i)))
                 \o From(i + 1)
    IN From(1)

\* ------------------------------------------------------------------------
\* dedup.py main() and build_final_result.py main()
\* ------------------------------------------------------------------------

THRESHOLD_AUTO_DUPLICATE == 9200
THRESHOLD_PROBABLE == 7500
\* in units of 1/100, as the confidences are
AI_CONFIDENCE_ACCEPT == 70
\* the cap on remote calls (200 in the code), scaled down
MAX_AI_CALLS == 1
MAX_BLOCK_SIZE == 500
\* in units of 1/30, as dedup_primary_score is
PRIMARY_QUALITY_MIN == 30
\* round(score, 3) >= 0.60
GROUP_COHERENCE_MIN == 5995
\* for attempt in range(3)
MaxAttempts == 3

\* the Company rows of masters a run starts from, ids 1, 2, 3
DedupFamilies ==
    << <<"Unknown", "UNKNOWN", "unknown">>,
       <<"tata motors", "tata-motors", "Tata Motors Finance">>,
       <<"Tata Motorz Financee", "Tata Motors Fin", "Tata Moters Finance">>,
       <<"IBM", "I.B.M. India", "ibm india">>,
       <<"3m India", "3M India", "3m india">> >>

\* what one HTTP attempt can come back with: a failure of the request, a
\* response whose verdict cannot be read, or a verdict
HttpOutcomes ==
    {[kind |-> k, same_company |-> FALSE, confidence |-> 0] :
        k \in {"conn_error", "timeout", "http_429", "http_500", "body_not_json",
               "no_choices", "empty_choices", "null_content", "content_not_json",
               "json_not_object", "confidence_null", "confidence_not_number"}}
    \cup {[kind |-> "verdict", same_company |-> s, confidence |-> c] :
             s \in BOOLEAN, c \in {69, 70, 90}}

\* a fresh database; the index on masters.label is not in the repository: it
\* may be absent, or unique under a case-sensitive or a case-insensitive
\* collation, and the rows respect it
InitDedup ==
    /\ use_openrouter \in BOOLEAN
    /\ unique_label \in {"none", "cs", "ci"}
    /\ \E f \in 1..Len(DedupFamilies) :
          /\ masters = [i \in 1..3 |-> [label |-> DedupFamilies[f][i], duplicate_status |-> "NULL",
                                        duplicate_of |-> 0, record_type |-> "old"]]
          /\ unique_label = "cs" =>
                \A i, j \in 1..3 : i # j => DedupFamilies[f][i] # DedupFamilies[f][j]
          /\ unique_label = "ci" =>
                \A i, j \in 1..3 : i # j => lower(DedupFamilies[f][i]) # lower(DedupFamilies[f][j])
    /\ pc = "d_load"
    /\ uf = EmptyUF
    /\ pair_scores = <<>> /\ probable_pairs = <<>> /\ next_pair = 1 /\ ai_calls_made = 0
    /\ attempt = 0 /\ pair_ai = <<>> /\ ai_confirmed = {} /\ new_inserts = <<>>
    /\ final_result = {}
    /\ all_rows = <<>> /\ hash_seed = 0 /\ run = 1 /\ prev_partition = {} /\ prev_primaries = {}
    /\ all_records = <<>> /\ id_to_norm = <<>> /\ candidate_pairs = {} /\ pending = {}
    /\ merged = {} /\ raw_groups = <<>> /\ id_to_group = <<>>
    /\ id_is_primary = <<>> /\ output = <<>>
    /\ uf_plain = <<>> /\ uf_calls = 0
    /\ m_a = "" /\ m_b = "" /\ m_score = 0 /\ m_result = "none"
    /\ NoText

\* the variables no step of dedup.py touches
pipeline_vars == <<all_rows, hash_seed, all_records, id_to_norm, candidate_pairs, pending,
                   merged, raw_groups, id_to_group, id_is_primary, output, run,
                   prev_partition, prev_primaries, m_a, m_b, m_score, m_result, text_vars, uf_plain, uf_calls>>

\* main(), from the reset of the statuses to the auto-duplicate pass: load,
\* normalise, block, score, union the auto-confirmed pairs, sort the probable
\* ones.  candidate_pairs is a set: pairs of equal score keep no fixed order
LoadAndScore ==
    LET Kept == {i \in DOMAIN masters :
                    /\ masters[i].record_type # "new"
                    /\ masters[i].label # "" /\ Len(strip(masters[i].label)) >= 2}
        Norm(i) == dedup_normalize(masters[i].label)
        Generic(key) == key = "" \/ Len(key) < 4 \/ Len(split(key)) = 1
        Keys(norm) ==
            (IF Len(norm) >= 3 THEN {<<"prefix", Prefix(norm, 3)>>} ELSE {})
            \cup (IF Generic(token_signature(norm)) THEN {}
                  ELSE {<<"token", token_signature(norm)>>})
        Candidate(i, j) ==
            /\ i < j
            /\ \E k \in Keys(Norm(i)) \cap Keys(Norm(j)) :
                  Cardinality({m \in Kept : k \in Keys(Norm(m))}) <= MAX_BLOCK_SIZE
            /\ Norm(i) # "" /\ Norm(j) # ""
        PairScore(i, j) ==
            IF Norm(i) = Norm(j) THEN 10000 ELSE dedup_composite_score(Norm(i), Norm(j))
        RECURSIVE UnionSet(_, _)
        UnionSet(u, S) ==
            IF S = {} THEN u
            ELSE LET p == CHOOSE x \in S : \A y \in S : x[1] < y[1] \/ (x[1] = y[1] /\ x[2] <= y[2])
                 IN UnionSet(union(u, p[1], p[2]), S \ {p})
        Sorted(P) ==
            {seq \in [1..Cardinality(P) -> P] :
                /\ \A k, l \in DOMAIN seq : k # l => seq[k] # seq[l]
                /\ \A k \in 1..(Cardinality(P) - 1) : seq[k][3] >= seq[k + 1][3]}
        After(scored) ==
            /\ uf' = UnionSet(EmptyUF, {<<s[1], s[2]>> : s \in {t \in scored : t[3] >= THRESHOLD_AUTO_DUPLICATE}})
            /\ pair_scores' = [key \in {<<s[1], s[2]>> : s \in {t \in scored : t[3] >= THRESHOLD_AUTO_DUPLICATE}}
                                  |-> PairScore(key[1], key[2])]
            /\ probable_pairs' \in Sorted({s \in scored : s[3] >= THRESHOLD_PROBABLE
                                                          /\ s[3] < THRESHOLD_AUTO_DUPLICATE})
    IN /\ pc = "d_load"
       /\ masters' = [i \in {j \in DOMAIN masters : masters[j].record_type # "new"} |->
                         [masters[i] EXCEPT !.duplicate_status = "NULL", !.duplicate_of = 0]]
       /\ After({<<p[1], p[2], PairScore(p[1], p[2])>> :
                    p \in {q \in Kept \X Kept : Candidate(q[1], q[2])}})
       /\ next_pair' = 1 /\ ai_calls_made' = 0 /\ attempt' = 0
       /\ pair_ai' = <<>> /\ ai_confirmed' = {}
       /\ pc' = "d_ai"
       /\ UNCHANGED <<pipeline_vars, use_openrouter, unique_label, new_inserts, final_result>>

\* a loop body that unions on every verdict of same company, whatever its
\* confidence
ApplyVerdictAnySame(u, result) ==
    LET OfPair(key) ==
            /\ pair_ai' = [k \in DOMAIN pair_ai \cup {key} |->
                              IF k = key THEN result ELSE pair_ai[k]]
            /\ pair_scores' = [k \in DOMAIN pair_scores \cup {key} |->
                                  IF k = key THEN probable_pairs[next_pair][3] ELSE pair_scores[k]]
            /\ IF result.same_company
               THEN /\ uf' = union(u, key[1], key[2])
                    /\ ai_confirmed' = ai_confirmed \cup {key}
               ELSE /\ uf' = u
                    /\ UNCHANGED ai_confirmed
    IN /\ OfPair(<<probable_pairs[next_pair][1], probable_pairs[next_pair][2]>>)
       /\ ai_calls_made' = ai_calls_made + 1
       /\ next_pair' = next_pair + 1
       /\ attempt' = 0
       /\ pc' = "d_ai"
       /\ UNCHANGED <<pipeline_vars, use_openrouter, unique_label, masters, probable_pairs,
                      new_inserts, final_result>>

\* a loop body that does not count the call
ApplyVerdictUncounted(u, result) ==
    LET OfPair(key) ==
            /\ pair_ai' = [k \in DOMAIN pair_ai \cup {key} |->
                              IF k = key THEN result ELSE pair_ai[k]]
            /\ pair_scores' = [k \in DOMAIN pair_scores \cup {key} |->
                                  IF k = key THEN probable_pairs[next_pair][3] ELSE pair_scores[k]]
            /\ IF result.same_company /\ result.confidence >= AI_CONFIDENCE_ACCEPT
               THEN /\ uf' = union(u, key[1], key[2])
                    /\ ai_confirmed' = ai_confirmed \cup {key}
               ELSE /\ uf' = u
                    /\ UNCHANGED ai_confirmed
    IN /\ OfPair(<<probable_pairs[next_pair][1], probable_pairs[next_pair][2]>>)
       /\ UNCHANGED ai_calls_made
       /\ next_pair' = next_pair + 1
       /\ attempt' = 0
       /\ pc' = "d_ai"
       /\ UNCHANGED <<pipeline_vars, use_openrouter, unique_label, masters, probable_pairs,
                      new_inserts, final_result>>

\* lines 556-568: the call is counted, the verdict is kept, and the pair is
\* unioned when the verdict says same company with enough confidence
ApplyVerdict(u, result) ==
    LET OfPair(key) ==
            /\ pair_ai' = [k \in DOMAIN pair_ai \cup {key} |->
                              IF k = key THEN result ELSE pair_ai[k]]
            /\ pair_scores' = [k \in DOMAIN pair_scores \cup {key} |->
                                  IF k = key THEN probable_pairs[next_pair][3] ELSE pair_scores[k]]
            /\ IF result.same_company /\ result.confidence >= AI_CONFIDENCE_ACCEPT
               THEN /\ uf' = union(u, key[1], key[2])
                    /\ ai_confirmed' = ai_confirmed \cup {key}
               ELSE /\ uf' = u
                    /\ UNCHANGED ai_confirmed
    IN /\ OfPair(<<probable_pairs[next_pair][1], probable_pairs[next_pair][2]>>)
       /\ ai_calls_made' = ai_calls_made + 1
       /\ next_pair' = next_pair + 1
       /\ attempt' = 0
       /\ pc' = "d_ai"
       /\ UNCHANGED <<pipeline_vars, use_openrouter, unique_label, masters, probable_pairs,
                      new_inserts, final_result>>

\* one pass of the loop over the probable pairs, up to the call of the oracle;
\* the local oracle answers at once
NextPair ==
    LET ai_cap == IF use_openrouter THEN MAX_AI_CALLS ELSE Len(probable_pairs)
        Found(fa, fb, p) ==
            IF fa.root = fb.root
            THEN /\ uf' = fb.uf
                 /\ next_pair' = next_pair + 1
                 /\ UNCHANGED <<pc, attempt, ai_calls_made, pair_ai, pair_scores, ai_confirmed,
                                pipeline_vars, use_openrouter, unique_label, masters,
                                probable_pairs, new_inserts, final_result>>
            ELSE IF use_openrouter
            THEN /\ uf' = fb.uf
                 /\ pc' = "d_http"
                 /\ attempt' = 0
                 /\ UNCHANGED <<next_pair, ai_calls_made, pair_ai, pair_scores, ai_confirmed,
                                pipeline_vars, use_openrouter, unique_label, masters,
                                probable_pairs, new_inserts, final_result>>
            ELSE ApplyVerdict(fb.uf,
                     [same_company |-> local_ai_validate(masters[p[1]].label, masters[p[2]].label,
                                           dedup_normalize(masters[p[1]].label),
                                           dedup_normalize(masters[p[2]].label), p[3])[1],
                      confidence |-> local_ai_validate(masters[p[1]].label, masters[p[2]].label,
                                         dedup_normalize(masters[p[1]].label),
                                         dedup_normalize(masters[p[2]].label), p[3])[2],
                      reasoning |-> "oracle"])
        Second(fa, p) == Found(fa, find(fa.uf, p[2]), p)
    IN /\ pc = "d_ai"
       /\ IF next_pair > Len(probable_pairs) \/ ai_calls_made >= ai_cap
          THEN /\ pc' = "d_update"
               /\ UNCHANGED <<uf, next_pair, attempt, ai_calls_made, pair_ai, pair_scores,
                              ai_confirmed, pipeline_vars, use_openrouter, unique_label,
                              masters, probable_pairs, new_inserts, final_result>>
          ELSE Second(find(uf, probable_pairs[next_pair][1]), probable_pairs[next_pair])

\* openrouter_ai_validate: one pass of its retry loop.  A request error, an
\* HTTP error status and a 429 go to the next attempt; JSONDecodeError,
\* KeyError and TypeError return the conservative verdict; any other
\* exception leaves the function and main()
HttpAttempt ==
    /\ pc = "d_http"
    /\ \E o \in HttpOutcomes :
          CASE o.kind \in {"conn_error", "timeout", "http_429", "http_500"} ->
                   IF attempt + 1 < MaxAttempts
                   THEN /\ attempt' = attempt + 1
                        /\ UNCHANGED <<pc, uf, next_pair, ai_calls_made, pair_ai, pair_scores,
                                       ai_confirmed, pipeline_vars, use_openrouter,
                                       unique_label, masters, probable_pairs, new_inserts,
                                       final_result>>
                   ELSE ApplyVerdict(uf, [same_company |-> FALSE, confidence |-> 0,
                                          reasoning |-> "All retries failed"])
            [] o.kind \in {"body_not_json", "no_choices", "content_not_json", "confidence_null"} ->
                   ApplyVerdict(uf, [same_company |-> FALSE, confidence |-> 0,
                                     reasoning |-> "Parse error"])
            [] o.kind \in {"empty_choices", "null_content", "json_not_object",
                           "confidence_not_number"} ->
                   /\ pc' = "d_crashed"
                   /\ UNCHANGED <<uf, next_pair, attempt, ai_calls_made, pair_ai, pair_scores,
                                  ai_confirmed, pipeline_vars, use_openrouter, unique_label,
                                  masters, probable_pairs, new_inserts, final_result>>
            [] o.kind = "verdict" ->
                   ApplyVerdict(uf, [same_company |-> o.same_company,
                                     confidence |-> o.confidence, reasoning |-> "oracle"])

\* main(), lines 581-760: the groups, their primaries, the coherence filter,
\* and the primary, duplicate and probable updates, in that order.  A set of
\* small ints is iterated in ascending order and the sort is stable: the best
\* member is the lowest id among those of the highest score
UpdateStatuses ==
    LET Label(i) == masters[i].label
        Coherent(b, m) ==
            \/ <<Min(b, m), Max(b, m)>> \in DOMAIN pair_scores
            \/ /\ dedup_normalize(Label(b)) # "" /\ dedup_normalize(Label(m)) # ""
               /\ dedup_composite_score(dedup_normalize(Label(b)), dedup_normalize(Label(m)))
                     >= GROUP_COHERENCE_MIN
        NewLabel(b) ==
            IF dedup_primary_score(Label(b)) < PRIMARY_QUALITY_MIN /\ strip(Label(b)) \notin {"", "-"}
            THEN title(strip(Label(b))) ELSE ""
        Info(g, b) ==
            [primary_id |-> b, new_record_label |-> NewLabel(b),
             members |-> {m \in g \ {b} : Coherent(b, m)}
                         \cup (IF NewLabel(b) # "" THEN {b} ELSE {})]
        Best(g) ==
            CHOOSE b \in g : \A m \in g :
                \/ dedup_primary_score(Label(m)) < dedup_primary_score(Label(b))
                \/ dedup_primary_score(Label(m)) = dedup_primary_score(Label(b)) /\ b <= m
        ProbableIds ==
            UNION {{probable_pairs[k][1], probable_pairs[k][2]} :
                      k \in {l \in 1..Len(probable_pairs) :
                                /\ <<probable_pairs[l][1], probable_pairs[l][2]>> \in DOMAIN pair_ai
                                /\ pair_ai[<<probable_pairs[l][1], probable_pairs[l][2]>>].same_company
                                /\ pair_ai[<<probable_pairs[l][1], probable_pairs[l][2]>>].confidence
                                      < AI_CONFIDENCE_ACCEPT}}
        Written(group_info, probable_ids) ==
            /\ masters' =
                  [i \in DOMAIN masters |->
                      [masters[i] EXCEPT
                          !.duplicate_status =
                              IF i \in probable_ids THEN "probable"
                              ELSE IF \E gi \in group_info : gi.new_record_label = "" /\ i \in gi.members
                                   THEN "duplicate"
                              ELSE IF \E gi \in group_info : gi.new_record_label = "" /\ i = gi.primary_id
                                   THEN "primary"
                              ELSE @,
                          !.duplicate_of =
                              IF \E gi \in group_info : gi.new_record_label = "" /\ i \in gi.members
                              THEN (CHOOSE gi \in group_info :
                                        gi.new_record_label = "" /\ i \in gi.members).primary_id
                              ELSE @]]
            /\ new_inserts' \in
                  {seq \in [1..Cardinality({gi \in group_info : gi.new_record_label # ""})
                               -> {gi \in group_info : gi.new_record_label # ""}] :
                      \A k, l \in DOMAIN seq : k # l => seq[k] # seq[l]}
    IN /\ pc = "d_update"
       /\ Written({gi \in {Info(g, Best(g)) :
                               g \in {h \in {groups(uf)[r] : r \in DOMAIN groups(uf)} : Cardinality(h) > 1}} :
                      gi.members # {}},
                  ProbableIds)
       /\ pc' = "d_insert"
       /\ UNCHANGED <<uf, next_pair, attempt, ai_calls_made, pair_ai, pair_scores, ai_confirmed,
                      pipeline_vars, use_openrouter, unique_label, probable_pairs, final_result>>

\* main(), lines 763-818: one group that needs a new primary record.  The
\* INSERT fails with IntegrityError when the label is already there under the
\* collation of the unique index; the row found by the SELECT is then reused
InsertNewPrimary ==
    LET Same(a, b) == IF unique_label = "ci" THEN lower(a) = lower(b) ELSE a = b
        Pointed(rows, ginfo, new_primary_id) ==
            [i \in DOMAIN rows |->
                IF i \in ginfo.members
                THEN [rows[i] EXCEPT !.duplicate_status = "duplicate",
                                     !.duplicate_of = new_primary_id, !.record_type = "old"]
                ELSE rows[i]]
        Inserted(ginfo, new_primary_id) ==
            Pointed([i \in DOMAIN masters \cup {new_primary_id} |->
                        IF i = new_primary_id
                        THEN [label |-> ginfo.new_record_label, duplicate_status |-> "primary",
                              duplicate_of |-> 0, record_type |-> "new"]
                        ELSE masters[i]],
                    ginfo, new_primary_id)
        Reused(ginfo, existing) ==
            Pointed([masters EXCEPT ![existing].duplicate_status = "primary",
                                    ![existing].record_type = "old"],
                    ginfo, existing)
        Of(ginfo) ==
            IF unique_label # "none" /\ \E i \in DOMAIN masters : Same(masters[i].label, ginfo.new_record_label)
            THEN \E e \in {i \in DOMAIN masters : Same(masters[i].label, ginfo.new_record_label)} :
                     masters' = Reused(ginfo, e)
            ELSE masters' = Inserted(ginfo, Cardinality(DOMAIN masters) + 1)
    IN /\ pc = "d_insert"
       /\ new_inserts # <<>>
       /\ Of(Head(new_inserts))
       /\ new_inserts' = Tail(new_inserts)
       /\ UNCHANGED <<pc, uf, next_pair, attempt, ai_calls_made, pair_ai, pair_scores,
                      ai_confirmed, pipeline_vars, use_openrouter, unique_label,
                      probable_pairs, final_result>>

\* build_final_result.py main(), run when dedup.py has ended: the duplicate,
\* primary, probable and singleton rows, as (master_id, group_id, is_primary)
BuildFinalResult ==
    LET Row(i, r) ==
            CASE r.duplicate_status = "duplicate" /\ r.duplicate_of # 0 ->
                     {[master_id |-> i, group_id |-> r.duplicate_of, is_primary |-> 0]}
              [] r.duplicate_status = "primary" ->
                     {[master_id |-> i, group_id |-> i, is_primary |-> 1]}
              [] r.duplicate_status = "probable" ->
                     {[master_id |-> i, group_id |-> IF r.duplicate_of = 0 THEN i ELSE r.duplicate_of,
                       is_primary |-> IF r.duplicate_of = 0 THEN 1 ELSE 0]}
              [] r.duplicate_status = "NULL" ->
                     {[master_id |-> i, group_id |-> i, is_primary |-> 1]}
              [] OTHER -> {}
    IN /\ pc = "d_insert"
       /\ new_inserts = <<>>
       /\ final_result' = UNION {Row(i, masters[i]) : i \in DOMAIN masters}
       /\ pc' = "d_done"
       /\ UNCHANGED <<uf, next_pair, attempt, ai_calls_made, pair_ai, pair_scores, ai_confirmed,
                      pipeline_vars, use_openrouter, unique_label, masters, probable_pairs,
                      new_inserts>>

NextDedup ==
    \/ LoadAndScore
    \/ NextPair
    \/ HttpAttempt
    \/ UpdateStatuses
    \/ InsertNewPrimary
    \/ BuildFinalResult

SpecDedup == InitDedup /\ [][NextDedup]_vars

\* ------------------------------------------------------------------------
\* Properties
\* ------------------------------------------------------------------------

\* the ids of the records classified valid
ValidRecordIds == {all_records[k].rid : k \in {j \in 1..Len(all_records) :
                                                  all_records[j].is_valid = 1}}
\* the ids that took part in a union the run accepted
UnionedIds == UNION {{p[1], p[2]} : p \in merged}
\* the ids of the valid rows of the output that carry the group id of row id
ClusterOfId(id) ==
    {r.master_id : r \in {q \in ValidRows :
        \E o \in ValidRows : o.master_id = id /\ o.group_id = q.group_id}}

\* C1: at the end of a run the final clusters partition the valid records:
\* every valid record has one output row and so lies in exactly one cluster,
\* no cluster overlaps another, the clusters are the groups of the
\* union-find, and a valid record that was never unioned is a cluster of
\* its own.
C1_ClustersPartitionValidRecords ==
    pc = "done" =>
        /\ UNION FinalPartition = ValidRecordIds
        /\ \A c1, c2 \in FinalPartition : c1 # c2 => c1 \cap c2 = {}
        /\ \A id \in ValidRecordIds :
              Cardinality({k \in 1..Len(output) : output[k].master_id = id}) = 1
        /\ \A id \in ValidRecordIds \ UnionedIds : {id} \in FinalPartition
        /\ \A a, b \in DOMAIN uf.parent :
              (Root(uf.parent, a) = Root(uf.parent, b)) <=> (ClusterOfId(a) = ClusterOfId(b))

\* a finished run with a cluster of two or more records beside a valid
\* record that was never unioned
C1_Witness ==
    /\ pc = "done"
    /\ \E c \in FinalPartition : Cardinality(c) >= 2
    /\ \E id \in ValidRecordIds \ UnionedIds : {id} \in FinalPartition

\* the number of rows of the output that are primaries of group gid
PrimariesOf(gid) ==
    Cardinality({k \in 1..Len(output) :
                    output[k].group_id = gid /\ output[k].is_primary = 1})

\* C2: in the output of a run every cluster of valid records (every
\* cluster_id carried by a row with is_valid = 1) has exactly one row with
\* is_primary = 1, and the row of an invalid record is a cluster of its own
\* (cluster_id = its source_id) that is never a primary.
C2_OnePrimaryPerValidCluster ==
    pc = "done" =>
        /\ \A gid \in {r.group_id : r \in ValidRows} : PrimariesOf(gid) = 1
        /\ \A r \in Range(output) \ ValidRows :
              r.group_id = r.master_id /\ r.is_primary = 0 /\ PrimariesOf(r.group_id) = 0

\* C2 as stated: every cluster_id that appears in the output rows, those of
\* invalid records included, has exactly one row with is_primary = 1
C2_OnePrimaryPerAnyCluster ==
    pc = "done" => \A gid \in {r.group_id : r \in Range(output)} : PrimariesOf(gid) = 1

\* a finished run with a cluster of two valid records or more and the row of
\* an invalid record
C2_Witness ==
    /\ pc = "done"
    /\ \E gid \in {r.group_id : r \in ValidRows} :
          /\ Cardinality({r \in ValidRows : r.group_id = gid}) >= 2
          /\ PrimariesOf(gid) = 1
    /\ Range(output) \ ValidRows # {}

\* C3: the output has exactly one row for each input row: every source_id
\* of the input, valid or invalid, is the master_id of exactly one output
\* row, no other id appears, and the two row counts are equal.
C3_OneOutputRowPerInputRow ==
    pc = "done" =>
        /\ Len(output) = Len(all_rows)
        /\ \A k \in 1..Len(all_rows) :
              Cardinality({j \in 1..Len(output) : output[j].master_id = all_rows[k][1]}) = 1
        /\ {output[j].master_id : j \in 1..Len(output)}
              = {all_rows[k][1] : k \in 1..Len(all_rows)}

\* a finished run over three rows of which one is invalid and two are valid
C3_Witness ==
    /\ pc = "done"
    /\ Len(all_rows) = 3
    /\ Cardinality(ValidRows) = 2
    /\ Cardinality(Range(output) \ ValidRows) = 1

\* C4 as stated: at the end of a run any two valid records whose normalized
\* texts are identical are in the same final cluster, whatever else the
\* input holds.
C4_EqualNormsShareCluster ==
    pc = "done" =>
        \A r1, r2 \in ValidRows :
            normalize(r1.company_name) = normalize(r2.company_name)
                => r1.group_id = r2.group_id

\* C5: a pair of differing normalized texts whose shorter name has at most
\* one significant token is never accepted by the merge decision with a
\* score below 0.95; so the bare name "alpha" is accepted with "alpha home
\* finance" or "alpha dbs finance" only at a score of 0.95 or more.
C5_ShortNameNeedsHighScore ==
    pc = "decided" =>
        /\ (/\ m_a # m_b
            /\ Min(Len(significant_tokens(m_a)), Len(significant_tokens(m_b))) <= 1
            /\ m_score < 9500)
              => m_result = "reject"
        /\ (/\ {m_a, m_b} \in {{"alpha", "alpha home finance"}, {"alpha", "alpha dbs finance"}}
            /\ m_result = "merge")
              => m_score >= 9500

\* the bare name decided against a multi-word name just below 0.95
C5_Witness ==
    /\ pc = "decided"
    /\ m_a = "alpha" /\ m_b = "alpha home finance"
    /\ m_score = 9499
    /\ m_result = "reject"

\* C6 as stated: whenever, after typo-folding, the significant tokens of one
\* name are a subset of the other's and the extra tokens include a strong
\* differentiator, the merge decision rejects the pair unless the score is
\* 0.93 or more.
C6_StrongExtraRejectedBelow93 ==
    pc = "decided" =>
        LET Extra(f) ==
                /\ (f.real_only_a = {}) # (f.real_only_b = {})
                /\ (f.real_only_a \cup f.real_only_b) \cap STRONG_DIFFERENTIATORS # {}
            OfSets(A, B) == Extra(FuzzyFold(A \ B, B \ A))
        IN (/\ OfSets(Range(significant_tokens(m_a)), Range(significant_tokens(m_b)))
            /\ m_score < 9300)
              => m_result = "reject"

\* C7: two names that share significant tokens, all of them of the generic
\* vocabulary, and that each keep a token the other lacks after
\* typo-folding, are refused by the merge decision at every score.
C7_OnlyGenericSharedRefused ==
    pc = "decided" =>
        LET BothKeep(f) == f.real_only_a # {} /\ f.real_only_b # {}
            OfSets(A, B) ==
                /\ A \cap B # {}
                /\ (A \cap B) \subseteq GENERIC_INDUSTRY_TERMS
                /\ BothKeep(FuzzyFold(A \ B, B \ A))
        IN OfSets(Range(significant_tokens(m_a)), Range(significant_tokens(m_b)))
              => m_result = "reject"

\* "alpha consulting" against "beta consulting" refused at the top score
C7_Witness ==
    /\ pc = "decided"
    /\ m_a = "alpha consulting" /\ m_b = "beta consulting"
    /\ m_score = 10000
    /\ m_score >= AUTO_MERGE_THRESHOLD
    /\ m_result = "reject"

\* the pair is an exact normalized match or meets the strict threshold
TightPair(a, b) ==
    \/ NormOf(a) = NormOf(b)
    \/ Score(NormOf(a), NormOf(b)) >= TIGHT_THRESHOLD

\* the members of M reached from the set R over tight pairs in n steps
RECURSIVE TightReach(_, _, _)
TightReach(R, M, n) ==
    IF n = 0 THEN R
    ELSE TightReach(R \cup {y \in M : \E x \in R : TightPair(x, y)}, M, n - 1)

\* the raw groups the splitter took for oversized
Oversized == {r \in DOMAIN raw_groups : Cardinality(raw_groups[r]) > MAX_GROUP_SIZE}

\* the members of an oversized raw group that end in the cluster of a
SubClusterOf(r, a) == raw_groups[r] \cap ClusterOfId(a)

\* C8: after the splitter has gone over an oversized cluster, any two
\* records of one resulting sub-cluster are joined by a chain of records of
\* that sub-cluster in which each pair of neighbours is an exact normalized
\* match or scores at least 0.90; a pair that is not a pair of neighbours
\* may score less.
C8_SubClustersTightlyChained ==
    pc = "done" =>
        \A r \in Oversized : \A a \in raw_groups[r] :
            TightReach({a}, SubClusterOf(r, a), Cardinality(SubClusterOf(r, a)))
                = SubClusterOf(r, a)

\* C8 as stated: after the splitter has gone over an oversized cluster,
\* every pair of records of one resulting sub-cluster is an exact
\* normalized match or scores at least 0.90.
C8_SubClustersPairwiseTight ==
    pc = "done" =>
        \A r \in Oversized : \A a \in raw_groups[r] :
            \A b \in SubClusterOf(r, a) : TightPair(a, b)

\* an oversized cluster the splitter has split, one of whose sub-clusters
\* keeps three records or more
C8_Witness ==
    /\ pc = "done"
    /\ \E r \in Oversized : \E a \in raw_groups[r] :
          /\ Cardinality(SubClusterOf(r, a)) >= 3
          /\ SubClusterOf(r, a) # raw_groups[r]

\* C9 as stated: a second run of the pipeline on the same rows ends with the
\* partition the first run ended with, in whatever order the candidate
\* pairs are scored and the token sets are iterated.
C9_RerunGivesSamePartition ==
    (run = 2 /\ pc = "done") => FinalPartition = prev_partition

\* C10: the cluster_id of the row of a valid record is the source_id of the
\* primary of its own cluster: exactly one row has that source_id, it is a
\* valid row of the same cluster with is_primary = 1, and the cluster_id of
\* a primary is its own source_id.
C10_ClusterIdIsPrimaryId ==
    pc = "done" =>
        \A r \in ValidRows :
            /\ Cardinality({k \in 1..Len(output) : output[k].master_id = r.group_id}) = 1
            /\ \A q \in Range(output) :
                  q.master_id = r.group_id
                      => q.is_valid = 1 /\ q.group_id = r.group_id /\ q.is_primary = 1
            /\ r.is_primary = 1 => r.group_id = r.master_id

\* a finished run with a cluster whose primary is not its record of lowest id
C10_Witness ==
    /\ pc = "done"
    /\ \E r \in ValidRows : r.group_id > r.master_id /\ r.is_primary = 0
    /\ \E r \in ValidRows : r.is_primary = 1 /\ Cardinality(ClusterOfId(r.master_id)) >= 2

\* C11: a record classified invalid never takes part in blocking, scoring
\* or a union, and in the output it is a singleton of its own: its
\* cluster_id is its own source_id, no other row carries that cluster_id,
\* and its is_primary is 0.
C11_InvalidRecordsStayOut ==
    \A k \in 1..Len(all_records) :
        all_records[k].is_valid = 0 =>
            /\ all_records[k].rid \notin DOMAIN id_to_norm
            /\ \A p \in candidate_pairs \cup pending \cup merged :
                  all_records[k].rid \notin {p[1], p[2]}
            /\ all_records[k].rid \notin DOMAIN uf.parent
            /\ \A r \in DOMAIN raw_groups : all_records[k].rid \notin raw_groups[r]
            /\ pc = "done" =>
                  \A j \in 1..Len(output) :
                      /\ output[j].master_id = all_records[k].rid
                            => /\ output[j].group_id = all_records[k].rid
                               /\ output[j].is_primary = 0
                               /\ output[j].is_valid = 0
                      /\ output[j].group_id = all_records[k].rid
                            => output[j].master_id = all_records[k].rid

\* a finished run with the row of an invalid record beside a cluster of two
\* valid records that went through blocking, scoring and a union
C11_Witness ==
    /\ pc = "done"
    /\ \E k \in 1..Len(all_records) : all_records[k].is_valid = 0
    /\ merged # {}
    /\ \E j \in 1..Len(output) : output[j].is_valid = 0 /\ output[j].is_primary = 0

\* ------------------------------------------------------------------------
\* C15: normalize is idempotent: applying normalize to a text that normalize
\* returned gives that text back, for every text (legal suffixes, the
\* article "the" and ampersand acronyms included).
C15_NormalizeIdempotent ==
    Len(t_norm) >= 2 => t_norm[2] = t_norm[1]

\* ------------------------------------------------------------------------
\* C16 (as the code has it): classify returns the first reason in the order
\* empty, too_short, special_chars_only, numeric_only, placeholder: the empty
\* text is "empty", a text of 1 or 2 characters is too_short whatever its
\* characters, an all-digit text of 3 or more characters is numeric_only, and
\* "test", "n/a", "tbd" in any case are placeholder.
C16_ClassifyFirstReasonInOrder ==
    t_reason # "unset" =>
        /\ t_x = "" => t_reason = "empty"
        /\ Len(t_x) \in 1..2 => Prefix(t_reason, 9) = "too_short"
        /\ (AllDigits(t_x) /\ Len(t_x) >= 3) => t_reason = "numeric_only"
        /\ lower(t_x) \in {"test", "n/a", "tbd"} => t_reason = "placeholder"

\* C16 as stated: every all-digit text is numeric_only and every text of at
\* most 2 characters is too_short.
C16_DigitsNumericShortTooShort ==
    t_reason # "unset" =>
        /\ (AllDigits(t_x) /\ t_x # "") => t_reason = "numeric_only"
        /\ Len(t_x) <= 2 => Prefix(t_reason, 9) = "too_short"
        /\ lower(t_x) \in {"test", "n/a", "tbd"} => t_reason = "placeholder"

\* an all-digit text of 2 characters has been classified
C16_Witness ==
    /\ t_reason # "unset"
    /\ AllDigits(t_x) /\ Len(t_x) = 2
    /\ Prefix(t_reason, 9) = "too_short"

\* ------------------------------------------------------------------------
\* C17: the composite score is symmetric: composite_score(a, b) equals
\* composite_score(b, a) for every pair of normalised texts, the empty text
\* included.
C17_ScoreSymmetric ==
    t_score # <<>> => t_score[1] = t_score[2]

\* two different non-empty texts of different lengths have been scored both
\* ways round, with a score strictly between 0 and 1
C17_Witness ==
    /\ t_score # <<>>
    /\ Len(normalize(t_x)) < Len(normalize(t_y)) /\ normalize(t_x) # ""
    /\ t_score[1] > 0 /\ t_score[1] < 10000

\* ------------------------------------------------------------------------
\* C19: the raw clusters are the connected components of the graph of the
\* accepted pairs: while and after the scoring loop runs, two valid records
\* have the same root in the union-find iff a chain of accepted (unioned)
\* pairs links them; a record no accepted pair touches is alone.
C19_RawClustersAreComponents ==
    LET RECURSIVE Linked(_, _)
        Linked(R, n) ==
            IF n = 0 THEN R
            ELSE Linked(R \cup {y \in ValidRecordIds :
                                   \E x \in R : <<x, y>> \in merged \/ <<y, x>> \in merged},
                        n - 1)
        SameRoot(x, y) ==
            \/ x = y
            \/ /\ x \in DOMAIN uf.parent /\ y \in DOMAIN uf.parent
               /\ Root(uf.parent, x) = Root(uf.parent, y)
    IN pc = "score" =>
           \A x, y \in ValidRecordIds :
               SameRoot(x, y) <=> y \in Linked({x}, Cardinality(ValidRecordIds))

\* the scoring loop has ended with a-b and b-c accepted and the candidate
\* pair a-c refused, and a and c are in one raw cluster
C19_Witness ==
    /\ pc = "score" /\ pending = {}
    /\ \E a, b, c \in ValidRecordIds :
          /\ Cardinality({a, b, c}) = 3
          /\ \E p \in merged : {p[1], p[2]} = {a, b}
          /\ \E p \in merged : {p[1], p[2]} = {b, c}
          /\ \E p \in candidate_pairs \ merged : {p[1], p[2]} = {a, c}
          /\ Root(uf.parent, a) = Root(uf.parent, c)

\* ------------------------------------------------------------------------
\* C20: for a pair scored in the base band (MERGE_THRESHOLD <= score <
\* AUTO_MERGE_THRESHOLD) on which neither the short-name guard, nor the
\* generic-term protection, nor the business conflict fired, the decision is
\* "merge" iff the significant-token sets are equal or at least 65% of the
\* tokens of the smaller set have a counterpart of ratio >= 0.80 in the other
\* set (when the sets have the same size, either may be taken as the smaller).
C20_BandAcceptsOnSmallerSetOverlap ==
    LET Overlap(S, O) ==
            /\ S # {}
            /\ 100 * Cardinality({t \in S : \E o \in O : RatioAtLeast80(t, o)})
                  >= 65 * Cardinality(S)
        Verdicts(set_a, set_b) ==
            IF Cardinality(set_a) < Cardinality(set_b) THEN {Overlap(set_a, set_b)}
            ELSE IF Cardinality(set_b) < Cardinality(set_a) THEN {Overlap(set_b, set_a)}
            ELSE {Overlap(set_a, set_b), Overlap(set_b, set_a)}
        NoGuard(tokens_a, tokens_b) ==
            /\ m_a # m_b
            /\ Min(Len(tokens_a), Len(tokens_b)) > 1
            /\ ~GenericProtectionBlocks(Range(tokens_a), Range(tokens_b), m_score)
            /\ ~has_business_conflict(m_a, m_b, m_score)
        Claimed(set_a, set_b) ==
            (m_result = "merge") \in {set_a = set_b \/ v : v \in Verdicts(set_a, set_b)}
    IN (/\ pc = "decided"
        /\ m_score >= MERGE_THRESHOLD /\ m_score < AUTO_MERGE_THRESHOLD
        /\ NoGuard(significant_tokens(m_a), significant_tokens(m_b)))
       => Claimed(Range(significant_tokens(m_a)), Range(significant_tokens(m_b)))

\* C12 (as amended): in the oracle-assisted run, a consulted pair is unioned on
\* the verdict exactly when the verdict says same company and its confidence
\* is at least the acceptance bar (0.70); any other verdict leaves the pair in
\* two sets.
C12_UnionOnlyOnAcceptedVerdict ==
    [][\A key \in DOMAIN pair_ai' \ DOMAIN pair_ai :
          (Root(uf'.parent, key[1]) = Root(uf'.parent, key[2]))
              <=> (pair_ai'[key].same_company
                   /\ pair_ai'[key].confidence >= AI_CONFIDENCE_ACCEPT)]_vars

\* C12 (as stated): the pair is unioned only if the confidence exceeds the
\* acceptance bar.
C12_UnionOnlyAboveBar ==
    [][\A key \in DOMAIN pair_ai' \ DOMAIN pair_ai :
          (Root(uf'.parent, key[1]) = Root(uf'.parent, key[2]))
              => (pair_ai'[key].same_company
                  /\ pair_ai'[key].confidence > AI_CONFIDENCE_ACCEPT)]_vars

\* a pair unioned on a verdict whose confidence is exactly the bar
C12_Witness ==
    \E key \in DOMAIN pair_ai :
        /\ pair_ai[key].same_company
        /\ pair_ai[key].confidence = AI_CONFIDENCE_ACCEPT
        /\ key \in ai_confirmed
        /\ Root(uf.parent, key[1]) = Root(uf.parent, key[2])

\* C13: the consultations of a run, the one under way included, never exceed
\* the cap (MAX_AI_CALLS with the remote oracle, the number of probable pairs
\* with the local one), and no union is performed for a probable pair that
\* was not consulted: two records are in one set only when a chain of
\* auto-duplicate pairs and of consulted, accepted pairs links them.
C13_ConsultationsCappedRestUnmerged ==
    LET ai_cap == IF use_openrouter THEN MAX_AI_CALLS ELSE Len(probable_pairs)
        Edges == {k \in DOMAIN pair_scores : pair_scores[k] >= THRESHOLD_AUTO_DUPLICATE}
                 \cup {k \in DOMAIN pair_ai : pair_ai[k].same_company
                                              /\ pair_ai[k].confidence >= AI_CONFIDENCE_ACCEPT}
        RECURSIVE Linked(_, _)
        Linked(S, n) ==
            IF n = 0 THEN S
            ELSE Linked(S \cup {y \in DOMAIN uf.parent :
                                   \E x \in S : <<x, y>> \in Edges \/ <<y, x>> \in Edges}, n - 1)
    IN pc \in {"d_ai", "d_http", "d_crashed", "d_update", "d_insert", "d_done"} =>
          /\ ai_calls_made <= ai_cap
          /\ Cardinality(DOMAIN pair_ai) + (IF pc \in {"d_http", "d_crashed"} THEN 1 ELSE 0) <= ai_cap
          /\ ai_confirmed \subseteq DOMAIN pair_ai
          /\ \A x, y \in DOMAIN uf.parent :
                Root(uf.parent, x) = Root(uf.parent, y)
                    <=> y \in Linked({x}, Cardinality(DOMAIN uf.parent))

\* the cap was reached while a probable pair was still waiting, and that pair
\* is in two sets at the end of the run
C13_Witness ==
    /\ use_openrouter
    /\ pc = "d_done"
    /\ ai_calls_made = MAX_AI_CALLS
    /\ \E k \in 1..Len(probable_pairs) :
          /\ <<probable_pairs[k][1], probable_pairs[k][2]>> \notin DOMAIN pair_ai
          /\ probable_pairs[k][1] \in DOMAIN uf.parent
          /\ probable_pairs[k][2] \in DOMAIN uf.parent
          /\ Root(uf.parent, probable_pairs[k][1]) # Root(uf.parent, probable_pairs[k][2])

\* C14 (as stated): a failed call of the remote oracle never aborts the run,
\* and the verdict kept for it says not the same entity and unions nothing.
C14_FailedCallIsConservative ==
    /\ pc # "d_crashed"
    /\ \A key \in DOMAIN pair_ai :
          pair_ai[key].reasoning # "oracle" =>
              /\ ~pair_ai[key].same_company
              /\ key \notin ai_confirmed

\* C18 (as stated): when build_final_result has run, every group_id of
\* final_result has exactly one row with is_primary = 1.
C18_OnePrimaryPerGroup ==
    pc = "d_done" =>
        \A g \in {r.group_id : r \in final_result} :
            Cardinality({r \in final_result : r.group_id = g /\ r.is_primary = 1}) = 1

\* C21: the splitter is local: every raw cluster of at most MAX_GROUP_SIZE
\* members is, with the same members, a set of the union-find after the
\* splitting pass and a cluster of the output, whether or not another
\* cluster was split.
C21_SmallClustersUntouched ==
    /\ pc \in {"select", "insert", "done"} =>
          \A r \in DOMAIN raw_groups :
              Cardinality(raw_groups[r]) <= MAX_GROUP_SIZE =>
                  raw_groups[r] \in {groups(uf)[q] : q \in DOMAIN groups(uf)}
    /\ pc = "done" =>
          \A r \in DOMAIN raw_groups :
              Cardinality(raw_groups[r]) <= MAX_GROUP_SIZE => raw_groups[r] \in FinalPartition

\* a run in which an oversized cluster was split while a small one was there
C21_Witness ==
    /\ pc = "done"
    /\ \E r \in DOMAIN raw_groups :
          Cardinality(raw_groups[r]) \in 2..MAX_GROUP_SIZE /\ raw_groups[r] \in FinalPartition
    /\ \E r \in DOMAIN raw_groups :
          Cardinality(raw_groups[r]) > MAX_GROUP_SIZE /\ raw_groups[r] \notin FinalPartition

\* C22: the splitter never joins records of different raw clusters: two
\* records in one set after the splitting pass, and two valid rows of one
\* group_id in the output, are members of one raw cluster.
C22_FinalRefinesRaw ==
    /\ pc \in {"select", "insert", "done"} =>
          \A x, y \in DOMAIN uf.parent :
              Root(uf.parent, x) = Root(uf.parent, y) =>
                  \E r \in DOMAIN raw_groups : {x, y} \subseteq raw_groups[r]
    /\ pc = "done" =>
          \A c \in FinalPartition :
              Cardinality(c) > 1 => \E r \in DOMAIN raw_groups : c \subseteq raw_groups[r]

\* a run with two raw clusters, one of them split by a splitter that scored
\* a pair of it that blocking had not proposed
C22_Witness ==
    /\ pc = "done"
    /\ Cardinality(DOMAIN raw_groups) >= 2
    /\ \E r \in DOMAIN raw_groups :
          /\ Cardinality(raw_groups[r]) > MAX_GROUP_SIZE
          /\ raw_groups[r] \notin FinalPartition
          /\ \E a, b \in raw_groups[r] : a < b /\ <<a, b>> \notin candidate_pairs

\* C23 (as stated): after the splitting pass no cluster has more than
\* MAX_GROUP_SIZE members.
C23_NoClusterAboveMaxSize ==
    /\ pc \in {"select", "insert", "done"} =>
          \A q \in DOMAIN groups(uf) : Cardinality(groups(uf)[q]) <= MAX_GROUP_SIZE
    /\ pc = "done" => \A c \in FinalPartition : Cardinality(c) <= MAX_GROUP_SIZE

\* C24 (as stated): the merge decision is symmetric in its two names:
\* should_merge(a, b, s) = should_merge(b, a, s) and
\* has_business_conflict(a, b, s) = has_business_conflict(b, a, s).
C24_DecisionSymmetric ==
    pc = "decided" =>
        /\ (m_result = "merge") <=> should_merge(m_b, m_a, m_score)
        /\ has_business_conflict(m_a, m_b, m_score) <=> has_business_conflict(m_b, m_a, m_score)

\* C28 (as stated): a consultation of the remote oracle makes at most 3 HTTP
\* attempts and always ends with a verdict: it never leaves the function by
\* an exception, and the verdict kept after a parse error or after the third
\* failed attempt is not the same entity, with confidence 0.
C28_ConsultationEndsWithVerdict ==
    /\ attempt < MaxAttempts
    /\ pc # "d_crashed"
    /\ \A key \in DOMAIN pair_ai :
          pair_ai[key].reasoning \in {"Parse error", "All retries failed"} =>
              ~pair_ai[key].same_company /\ pair_ai[key].confidence = 0

\* C25 (as stated): the elected primary of a cluster is a member of the
\* highest canonical-quality score, and it depends only on the cluster's
\* members and their scores: a second run that ends with the same clusters
\* elects the same primaries.
C25_PrimaryIsBestAndStable ==
    /\ pc \in {"insert", "done"} =>
          \A mid \in DOMAIN uf.parent :
              /\ id_to_group[mid] \in groups(uf)[Root(uf.parent, mid)]
              /\ MemberScore(mid) <= MemberScore(id_to_group[mid])
    /\ (run = 2 /\ pc = "done" /\ FinalPartition = prev_partition) =>
          {r.master_id : r \in {q \in ValidRows : q.is_primary = 1}} = prev_primaries

\* C27: the text clean_name returns no longer ends with a location suffix that
\* the location pattern would strip, however many location suffixes were
\* stacked at the end of the input.
C27_CleanStripsUntilStable ==
    t_clean # "unset" => StripTrailingLocation(t_clean) = t_clean

\* ------------------------------------------------------------------------
\* The blocking stage on its own, with a limit small enough to be exceeded
\* ------------------------------------------------------------------------

\* the ids of the valid records and the limit on a block
MaxBlockIds == 4
MaxBlockScaled == 2

\* names whose keys overlap in part: all but the last share prefix3 and
\* first_word, two share compound and word_prefix as well
BlockLabels == {"Tata Motors", "Tata Motors Finance", "Tata Steel", "Infosys Technologies"}

InitBlock ==
    /\ id_to_norm \in [1..MaxBlockIds -> {normalize(clean_name(l)) : l \in BlockLabels}]
    /\ pc = "blocking"
    /\ hash_seed = 0 /\ all_rows = <<>> /\ run = 1 /\ prev_partition = {} /\ prev_primaries = {}
    /\ all_records = <<>> /\ candidate_pairs = {} /\ pending = {}
    /\ uf = EmptyUF /\ merged = {} /\ raw_groups = <<>> /\ id_to_group = <<>>
    /\ id_is_primary = <<>> /\ output = <<>> /\ uf_plain = <<>> /\ uf_calls = 0
    /\ m_a = "" /\ m_b = "" /\ m_score = 0 /\ m_result = "none"
    /\ NoText
    /\ NoDedup

\* 5. Blocking, under the scaled limit
BlockingScaled ==
    /\ pc = "blocking"
    /\ candidate_pairs' = CandidatePairsUpTo(id_to_norm, MaxBlockScaled)
    /\ pc' = "blocked"
    /\ UNCHANGED <<all_rows, hash_seed, all_records, id_to_norm, pending, uf, merged,
                   raw_groups, id_to_group, id_is_primary, output, run, prev_partition,
                   prev_primaries, m_a, m_b, m_score, m_result, text_vars, dedup_vars,
                   uf_plain, uf_calls>>

NextBlock == BlockingScaled

SpecBlock == InitBlock /\ [][NextBlock]_vars

\* the ids that carry the key
SharersOf(key) == {rid \in DOMAIN id_to_norm : key \in BlockKeys(id_to_norm[rid])}

\* C26: after blocking, a pair (a, b) is a candidate exactly when a and b are
\* two distinct valid records, written lower id first, that share at least
\* one key carried by 2 to the limit records; a key carried by fewer or by
\* more contributes nothing, and the pair is held once whatever the number of
\* keys it shares.
C26_CandidatesAreSharedKeyPairs ==
    pc = "blocked" =>
        /\ \A p \in candidate_pairs :
              /\ p[1] \in DOMAIN id_to_norm /\ p[2] \in DOMAIN id_to_norm
              /\ p[1] < p[2]
        /\ \A a, b \in DOMAIN id_to_norm :
              a < b =>
                 (<<a, b>> \in candidate_pairs
                    <=> \E key \in BlockKeys(id_to_norm[a]) \cap BlockKeys(id_to_norm[b]) :
                           /\ Cardinality(SharersOf(key)) >= 2
                           /\ Cardinality(SharersOf(key)) <= MaxBlockScaled)

\* a pair kept through a small block although it also shares a block above
\* the limit, next to a pair that shares nothing but blocks above the limit
C26_Witness ==
    /\ pc = "blocked"
    /\ \E p \in candidate_pairs :
          /\ \E key \in BlockKeys(id_to_norm[p[1]]) \cap BlockKeys(id_to_norm[p[2]]) :
                Cardinality(SharersOf(key)) > MaxBlockScaled
          /\ Cardinality(BlockKeys(id_to_norm[p[1]]) \cap BlockKeys(id_to_norm[p[2]])) >= 2
    /\ \E a, b \in DOMAIN id_to_norm :
          /\ a < b /\ <<a, b>> \notin candidate_pairs
          /\ BlockKeys(id_to_norm[a]) \cap BlockKeys(id_to_norm[b]) # {}

\* ------------------------------------------------------------------------
\* The two union-finds side by side: the one of the pipeline, by rank, and
\* the one of src/models.py, without ranks
\* ------------------------------------------------------------------------

\* the ids the calls are made on, and the number of calls
MaxUFIds == 4
MaxUFCalls == 4

\* models.UnionFind(): parent is a dict; keys is the order of its keys, the
\* order in which the ids were first seen
EmptyPlain == [parent |-> <<>>, keys |-> <<>>]

\* models.UnionFind.find: item when it is new, else the root after the path
\* from item has been compressed; root is the value returned, uf what is left
plain_find(u, item) ==
    IF item \notin DOMAIN u.parent
    THEN [uf |-> [parent |-> u.parent @@ (item :> item), keys |-> Append(u.keys, item)],
          root |-> item]
    ELSE LET Compress(r, path) ==
                 [uf |-> [u EXCEPT !.parent = [y \in DOMAIN u.parent |->
                                                  IF y \in path THEN r ELSE u.parent[y]]],
                  root |-> r]
         IN Compress(Root(u.parent, item), PathTo(u.parent, item))

\* a union that re-parents b itself instead of the root of its set
PlainUnionLeaf(u, a, b) ==
    LET Second(fb, root_a) ==
            IF root_a # fb.root
            THEN [fb.uf EXCEPT !.parent = [@ EXCEPT ![b] = root_a]] ELSE fb.uf
        First(fa) == Second(plain_find(fa.uf, b), fa.root)
    IN First(plain_find(u, a))

\* models.UnionFind.union: the root of b goes under the root of a
plain_union(u, a, b) ==
    LET Second(fb, root_a) ==
            IF root_a # fb.root
            THEN [fb.uf EXCEPT !.parent = [@ EXCEPT ![fb.root] = root_a]] ELSE fb.uf
        First(fa) == Second(plain_find(fa.uf, b), fa.root)
    IN First(plain_find(u, a))

\* models.UnionFind.groups: root -> the list of its members in the order of
\* the keys of parent (groups), and the union-find after find was called
\* on every key (uf)
plain_groups(u) ==
    LET roots == {Root(u.parent, x) : x \in DOMAIN u.parent}
    IN [uf |-> [u EXCEPT !.parent = [x \in DOMAIN u.parent |-> Root(u.parent, x)]],
        groups |-> [r \in roots |->
                       SelectSeq(u.keys, LAMBDA x : Root(u.parent, x) = r)]]

InitUF ==
    /\ uf = EmptyUF /\ uf_plain = EmptyPlain /\ uf_calls = 0
    /\ pc = "uf"
    /\ hash_seed = 0 /\ all_rows = <<>> /\ run = 1 /\ prev_partition = {} /\ prev_primaries = {}
    /\ all_records = <<>> /\ id_to_norm = <<>> /\ candidate_pairs = {} /\ pending = {}
    /\ merged = {} /\ raw_groups = <<>> /\ id_to_group = <<>>
    /\ id_is_primary = <<>> /\ output = <<>>
    /\ m_a = "" /\ m_b = "" /\ m_score = 0 /\ m_result = "none"
    /\ NoText
    /\ NoDedup

uf_rest == <<all_rows, hash_seed, all_records, id_to_norm, candidate_pairs, pending, merged,
             raw_groups, id_to_group, id_is_primary, output, run, prev_partition,
             prev_primaries, m_a, m_b, m_score, m_result, text_vars, dedup_vars>>

\* where the side-by-side run is: after a find, or after anything else
UFLabels == {"uf", "uf_find"}

\* union(x, y) on both
DoUnion ==
    /\ pc \in UFLabels /\ uf_calls < MaxUFCalls
    /\ \E x, y \in 1..MaxUFIds :
          /\ uf' = union(uf, x, y)
          /\ uf_plain' = plain_union(uf_plain, x, y)
    /\ pc' = "uf"
    /\ uf_calls' = uf_calls + 1
    /\ UNCHANGED uf_rest

\* find(x) on both
DoFind ==
    /\ pc \in UFLabels /\ uf_calls < MaxUFCalls
    /\ \E x \in 1..MaxUFIds :
          /\ uf' = find(uf, x).uf
          /\ uf_plain' = plain_find(uf_plain, x).uf
    /\ pc' = "uf_find"
    /\ uf_calls' = uf_calls + 1
    /\ UNCHANGED uf_rest

\* groups() on both, which calls find on every id seen
DoGroups ==
    /\ pc \in UFLabels /\ uf_calls < MaxUFCalls
    /\ uf' = Compressed(uf)
    /\ uf_plain' = plain_groups(uf_plain).uf
    /\ pc' = "uf"
    /\ uf_calls' = uf_calls + 1
    /\ UNCHANGED uf_rest

NextUF ==
    \/ DoUnion
    \/ DoFind
    \/ DoGroups

SpecUF == InitUF /\ [][NextUF]_vars

\* the sets of members groups() returns, whatever their roots
PartitionOfRanked(u) == {groups(u)[r] : r \in DOMAIN groups(u)}
PartitionOfPlain(u) ==
    {Range(plain_groups(u).groups[r]) : r \in DOMAIN plain_groups(u).groups}

\* C29: after any sequence of calls made on both union-finds, groups() of the
\* rank-less union-find of src/models.py and groups() of the rank-based one of
\* the pipeline hold the same ids and split them into the same sets of
\* members; every list of the rank-less one names each member once.
C29_PlainAndRankedSamePartition ==
    pc \in UFLabels =>
        /\ DOMAIN uf.parent = DOMAIN uf_plain.parent
        /\ PartitionOfRanked(uf) = PartitionOfPlain(uf_plain)
        /\ \A r \in DOMAIN plain_groups(uf_plain).groups :
              Len(plain_groups(uf_plain).groups[r])
                  = Cardinality(Range(plain_groups(uf_plain).groups[r]))

\* a set of three or more members that the two hold under different roots
C29_Witness ==
    /\ pc = "uf" /\ uf_calls > 0
    /\ \E x \in DOMAIN uf.parent :
          /\ Root(uf.parent, x) # Root(uf_plain.parent, x)
          /\ Cardinality(groups(uf)[Root(uf.parent, x)]) >= 3
    /\ Cardinality(PartitionOfRanked(uf)) >= 2

\* parent pointers followed n times from x
RECURSIVE Walk(_, _, _)
Walk(parent, x, n) == IF n = 0 THEN x ELSE Walk(parent, parent[x], n - 1)

\* every walk along parent pointers ends in a root
IsForest(parent) ==
    /\ \A x \in DOMAIN parent : parent[x] \in DOMAIN parent
    /\ \A x \in DOMAIN parent :
          parent[Walk(parent, x, Cardinality(DOMAIN parent))]
              = Walk(parent, x, Cardinality(DOMAIN parent))

\* C30: in the rank-based union-find, after any sequence of find, union and
\* groups calls, parent is a forest, every non-root has a rank strictly lower
\* than the rank of its parent, and a find call leaves every element that was
\* there its root and its rank and leaves the partition of those elements as
\* it was.
C30_ForestRanksAndFindPreserves ==
    /\ [](pc \in UFLabels =>
             /\ IsForest(uf.parent)
             /\ DOMAIN uf.rank = DOMAIN uf.parent
             /\ \A x \in DOMAIN uf.parent :
                   uf.parent[x] # x => uf.rank[x] < uf.rank[uf.parent[x]])
    /\ [][pc' = "uf_find" =>
             /\ \A x \in DOMAIN uf.parent :
                   /\ x \in DOMAIN uf'.parent
                   /\ Root(uf'.parent, x) = Root(uf.parent, x)
                   /\ uf'.rank[x] = uf.rank[x]
             /\ \A g \in PartitionOfRanked(uf) : g \in PartitionOfRanked(uf')
             /\ \A g \in PartitionOfRanked(uf') :
                   g \in PartitionOfRanked(uf) \/ (Cardinality(g) = 1 /\ g \cap DOMAIN uf.parent = {})]_vars

\* a find has compressed a path: a former root, of rank 1 or more, now sits
\* under another root and has no child left
C30_Witness ==
    /\ pc = "uf_find"
    /\ \E x \in DOMAIN uf.parent :
          /\ uf.rank[x] >= 1 /\ uf.parent[x] # x
          /\ \A y \in DOMAIN uf.parent : y # x => uf.parent[y] # x

====
